---- MODULE Spec2Model ----
(***************************************************************************)
(* A model of the field line tracer of VectorFieldPlot (src/plot/vfp.py):  *)
(* FieldLine._create_nodes_part, FieldLine._create_nodes and Field.F/V.    *)
(*                                                                         *)
(* Lengths (h, l, maxr, hmax, distances between nodes) are whole numbers   *)
(* of a model unit.  The length constants of the source keep their order   *)
(*   err < 2 err < 4 err < 1e-3 < 0.01 < h0 = (sqrt(5)-1)/10               *)
(* on a compressed scale.  The field is not computed: what an iteration    *)
(* learns from it (which pole is near, whether a corner is found, whether  *)
(* the Runge-Kutta step is accepted, the sign of the stop function at a    *)
(* new node, whether the new node moved) is an input of that iteration.    *)
(***************************************************************************)
EXTENDS Integers, Sequences, FiniteSets, TLC

VARIABLES
    pc,            \* position in FieldLine.__init__ / _create_nodes
    directions,    \* argument directions
    maxn,          \* argument maxn
    maxr,          \* argument maxr
    hmax,          \* argument hmax
    pass_dipoles,  \* argument pass_dipoles
    d_start,       \* self.d_start is not None
    stop_funcs,    \* <<b0, b1>>: stop_funcs[k] is a function (TRUE) or None
    poles,         \* pole kinds among field.elements
    part,          \* locals of the running _create_nodes_part call
    self_nodes,    \* self.nodes
    iters,         \* loop iterations executed since construction began
    passed,        \* dipoles traversed since construction began
    exc,           \* exception raised by the constructor, "none" if none
    is_loop,       \* what _is_loop returned: "untested", "loop" or "open"
    elements,      \* Field.elements of the field evaluated by Field.F
    xy,            \* the point Field.F is evaluated at
    Fres,          \* what Field.F returned
    geom,          \* what _out_of_bounds and the end points give for a line
    polyline,      \* what get_polylines returned last
    position,      \* what get_position returned last
    calls,         \* the calls of get_polylines and get_position so far
    refine,        \* locals of the running _get_polyline call
    plane,         \* arguments of the F_charged_plane call
    dct,           \* the old-style dictionary given to Field
    fcall          \* a helper function that is running: name, arguments, locals

vars == <<pc, directions, maxn, maxr, hmax, pass_dipoles, d_start, stop_funcs,
          poles, part, self_nodes, iters, passed, exc, is_loop, elements, xy, Fres,
          geom, polyline, position, calls, refine, plane, dct, fcall>>

lineArgs == <<directions, maxn, maxr, hmax, pass_dipoles, d_start, stop_funcs, poles>>
fieldVars == <<elements, xy, Fres>>
viewVars == <<geom, polyline, position, calls>>
restVars == <<viewVars, refine, plane, dct, fcall>>

\* no line is looked at, no _get_polyline, F_charged_plane, dictionary
\* conversion or helper function is running
ViewIdle ==
    /\ geom = [inside |-> <<>>, mid |-> <<>>, gap |-> "far"]
    /\ polyline = <<>> /\ position = <<>> /\ calls = <<>>
RestIdle ==
    ViewIdle /\ refine = <<>> /\ plane = <<>> /\ dct = <<>> /\ fcall = <<>>

----------------------------------------------------------------------------
(* Bounds of the model *)

\* largest maxn a FieldLine is constructed with
MaxN == 2
\* largest number of elements of a Field evaluated by Field.F
MaxElements == 2

(* Length constants of _create_nodes_part, in model units *)

\* err = 4e-8, the error tolerance of a step
Err == 8
\* 1e-3, the least length l of a path that may close
CloseL == 40
\* 0.01, the step size under which corners are looked for
CornerH == 64
\* h = (sqrt(5) - 1) / 10, the first step size
HInit == 96

Max(a, b) == IF a >= b THEN a ELSE b
Min(a, b) == IF a <= b THEN a ELSE b

----------------------------------------------------------------------------
(* Nodes.  vin, vout: "None", "vec" (a vector as the integrator wrote it), *)
(* "-vec" (that vector negated), "zero" (sc.zeros(2));                     *)
(* vout may also be "nokey" (the dict has no 'v_out' yet).  corner:        *)
(* "nokey", "True", "False".  g: sign of the part's stop function at p:    *)
(* "in" (< 0), "edge" (= 0), "out" (> 0), "na" (the part has none).        *)
(* d: distance to the previous node of the list (0 for the first).         *)
(* t: the parameter as a fraction <<numerator, denominator>>, <<0, 0>>     *)
(* while the dict has no 't'.  at: where p lies: "path" (a point the        *)
(* integrator computed), "monopole" or "dipole" (a copy of that pole's xy).*)

Node(vin, vout, corner, g, d) ==
    [vin |-> vin, vout |-> vout, corner |-> corner, g |-> g, d |-> d, t |-> <<0, 0>>,
     at |-> "path"]

Last(s) == s[Len(s)]
Front(s) == SubSeq(s, 1, Len(s) - 1)

\* nodes[-1][key] = val
SetLast(s, key, val) == [s EXCEPT ![Len(s)] = [@ EXCEPT ![key] = val]]
\* nodes[-2][key] = val
SetLast2(s, key, val) == [s EXCEPT ![Len(s) - 1] = [@ EXCEPT ![key] = val]]

----------------------------------------------------------------------------
(* _create_nodes_part: the locals of one call are the record               *)
(* [sign, nodes, h, h_old, l, i, pd, brk, p_obj, hit]; pd is the call's    *)
(* own copy of pass_dipoles and brk names the break that ended the loop    *)
(* ("" while the loop runs, "limit" when the while condition ended it).    *)
(* p_obj is the array object the local p is bound to: "p_start" (the       *)
(* array self.p_start, after p = self.p_start) or "fresh" (an array made   *)
(* by the call); hit is the set of array objects that p += ... has         *)
(* written in place.                                                       *)

\* LoopCond without the test of l against maxr
LoopCondNoMaxr(i, l) == i < maxn

\* the while condition of the main loop
LoopCond(i, l) == i < maxn /\ l < maxr

\* StopIndex with the two signs exchanged
StopIndexSwapped(sign) == IF sign = -1 THEN 1 ELSE 0

\* the index {-1.0: 0, 1.0: 1}[sign] into stop_funcs
StopIndex(sign) == IF sign = -1 THEN 0 ELSE 1

\* stop_funcs is not None and stop_funcs[index] is not None
HasStop(sign) == stop_funcs # <<>> /\ stop_funcs[StopIndex(sign) + 1]

\* the signs the part's stop function can take at a new node
GSet(sign) == IF HasStop(sign) THEN {"in", "out"} ELSE {"na"}

\* sign of the stop function at a node d away from the last node: the same
\* point has the same sign
GAt(P, d, g) == IF d = 0 THEN Last(P.nodes).g ELSE g

\* the state before the loop: nodes = [{'p': p, 'v_in': None}]
PartInit(sign, g0) ==
    [sign |-> sign, nodes |-> <<Node("None", "nokey", "nokey", g0, 0)>>,
     h |-> HInit, h_old |-> HInit, l |-> 0, i |-> 0, pd |-> pass_dipoles,
     brk |-> "", p_obj |-> "p_start", hit |-> {}]

\* a break that sets nodes[-1]['v_out'] = None first
BreakNone(P, why) == [P EXCEPT !.nodes = SetLast(@, "vout", "None"), !.brk = why]

\* Rebind as an update in place, p += ...
RebindInPlace(P) == [P EXCEPT !.hit = @ \cup {P.p_obj}]

\* p = p + ..., p = (16. * p22 - p11) / 15.: p names a new array
Rebind(P) == [P EXCEPT !.p_obj = "fresh"]

\* p += ...: the array p names is written
InPlace(P) == [P EXCEPT !.hit = @ \cup {P.p_obj}]

\* start from a dipole: one step of d_start
DipoleStart(P, g) ==
    LET d == IF d_start = 0 THEN 0 ELSE 1
    IN  [Rebind(P) EXCEPT !.h = d_start,
                  !.nodes = Append(SetLast(@, "vout", "vec"),
                                   Node("vec", "nokey", "nokey", GAt(P, d, g), d))]

\* SlowDown without the floor of 4 err
SlowDownNoFloor(P, x) == [P EXCEPT !.h = x]

\* slow down in front of the start point; x is dpole*cv*max(.9, 1-.1*dpole*cv)
SlowDown(P, x) == [P EXCEPT !.h = Max(4 * Err, x)]

\* MonopoleArrival without the break
MonopoleArrivalGoesOn(P, g) ==
    [P EXCEPT !.nodes = Append(SetLast(@, "vout", "vec"),
                               [Node("vec", "None", "nokey", g, 1)
                                    EXCEPT !.at = "monopole"]),
              !.l = @ + P.h]

\* arrival at a monopole: one more node at the monopole
MonopoleArrival(P, g) ==
    [P EXCEPT !.nodes = Append(SetLast(@, "vout", "vec"),
                               [Node("vec", "None", "nokey", g, 1)
                                    EXCEPT !.at = "monopole"]),
              !.l = @ + P.h, !.brk = "monopole"]

\* the pass_dipoles counter after a traversal
PassCount(pd) == IF pd > 0 THEN pd - 1 ELSE pd

\* arrival at a dipole: the pole node, then closure, end or traversal.
\* The result has brk = "continue" when the loop continues behind the dipole.
DipoleArrival(P, g1, g2, closes) ==
    LET Q == [P EXCEPT !.nodes = Append(SetLast(@, "vout", "vec"),
                                        [Node("zero", "zero", "nokey", g1, 1)
                                             EXCEPT !.at = "dipole"]),
                       !.l = @ + P.h]
    IN  IF closes /\ Q.l > CloseL THEN BreakNone(Q, "dipole_closed")
        ELSE IF Q.pd = 0 THEN BreakNone(Q, "dipole_end")
        ELSE [Q EXCEPT !.pd = PassCount(@),
                       !.nodes = Append(@, Node("vec", "nokey", "nokey", g2, 1)),
                       !.l = @ + P.h, !.brk = "continue"]

\* a corner: the corner node, then closure, end edge or one node behind it
Corner(P, g1, g2, closes, edge) ==
    LET Q == [InPlace(P) EXCEPT !.nodes = Append(SetLast(@, "vout", "vec"),
                                        Node("vec", "nokey", "True", g1, 1)),
                       !.l = @ + P.h]
    IN  IF closes /\ Q.l > CloseL THEN BreakNone(Q, "corner_closed")
        ELSE IF edge THEN BreakNone(Q, "end_edge")
        ELSE [Q EXCEPT !.nodes = Append(SetLast(@, "vout", "vec"),
                                        Node("vec", "nokey", "nokey", g2, 1)),
                       !.l = @ + P.h]

\* the step is accepted: diff < 2 err and rkv_err < 0.1
Accepted(rk) == rk \in {"acc0", "acc1", "acc2"}

\* AcceptVout that leaves the node without 'v_out'
AcceptVoutSkip(nodes) == nodes

\* nodes[-1]['v_out'] = vnorm(v) * h of an accepted step
AcceptVout(nodes) == SetLast(nodes, "vout", "vec")

\* single and double Runge-Kutta step; zero: the field is zero at the new
\* point; d: 0 when the new point is the old one
RKStep(P, rk, zero, d, g) ==
    IF ~Accepted(rk) THEN P
    ELSE LET Q == [Rebind(P) EXCEPT !.nodes = AcceptVout(@)]
         IN  IF zero THEN BreakNone(Q, "zero")
             ELSE IF Len(Q.nodes) >= 2 /\ Last(Q.nodes).d = 0 /\ Q.h <= 2 * Err
             THEN BreakNone([Q EXCEPT !.nodes = Front(@)], "stall")
             ELSE LET h1 == IF Len(Q.nodes) >= 2 /\ Last(Q.nodes).d = 0
                            THEN Q.h \div 7 ELSE Q.h
                  IN  [Q EXCEPT !.h = h1,
                                !.nodes = Append(@, Node("vec", "nokey", "nokey",
                                                         GAt(Q, d, g), d)),
                                !.l = @ + h1]

\* while len(nodes) > 1 and stop_fct(nodes[-2]['p']) > 0: nodes = nodes[:-1]
RECURSIVE WalkBack(_)
WalkBack(nodes) ==
    IF Len(nodes) > 1 /\ nodes[Len(nodes) - 1].g = "out"
    THEN WalkBack(Front(nodes)) ELSE nodes

\* brentq on the chord from nodes[-2] to nodes[-1] moves nodes[-1] to the
\* zero of the stop function; a zero at nodes[-2] is returned as t = 0
ClipLast(nodes) ==
    LET a == nodes[Len(nodes) - 1]
        moved == [Last(nodes) EXCEPT !.g = "edge", !.vin = "vec", !.at = "path",
                                     !.d = IF a.g = "edge" THEN 0 ELSE @]
    IN  SetLast2(Front(nodes) \o <<moved>>, "vout", "vec")

\* stop at the prohibited area
StopCheck(P) ==
    IF HasStop(P.sign) /\ Last(P.nodes).g = "out"
    THEN LET w == WalkBack(P.nodes)
         IN  [P EXCEPT !.nodes = IF Len(w) > 1 THEN ClipLast(w) ELSE w,
                       !.brk = "stop"]
    ELSE P

\* hmax is None is modelled as hmax = -1
ClampH(h) == LET h1 == Max(Err, h) IN IF hmax # -1 THEN Min(hmax, h1) ELSE h1

\* adapt step carefully.  rk stands for rkv_err and diff:
\*   "verr"  rkv_err >= 0.1
\*   "rej"   diff >= 2 err, factor = (err/diff)^.25 taken as 1/4
\*   "acc1"  diff = err, factor = 1
\*   "acc2"  diff = err/16, factor = 2
\*   "acc0"  diff = 0
Adapt(P, rk) ==
    LET num == CASE rk = "rej" -> 1 [] rk = "acc1" -> 4 [] OTHER -> 8
        scaled == (P.h * num) \div 4
        h_new == IF P.h < P.h_old THEN Min((P.h + P.h_old) \div 2, scaled)
                 ELSE Max(P.h \div 2, scaled)
    IN  IF rk = "verr" THEN [P EXCEPT !.h = ClampH(P.h \div 2)]
        ELSE IF rk # "acc0" THEN [P EXCEPT !.h_old = P.h, !.h = ClampH(h_new)]
        ELSE [P EXCEPT !.h_old = P.h, !.h = ClampH(2 * P.h)]

\* the rest of an iteration behind the special cases
IterRest(P, rk, zero, d, g) ==
    LET Q == RKStep(P, rk, zero, d, g)
    IN  IF Q.brk # "" THEN Q
        ELSE LET R == StopCheck(Q)
             IN  IF R.brk # "" THEN R ELSE Adapt(R, rk)

\* AfterLoop without the assignment behind the loop
AfterLoopKeep(nodes) == nodes

\* what the loop leaves behind: a 'continue' goes back to the while
\* condition, a break leaves the loop, and nodes[-1]['v_out'] = None
\* follows the loop
AfterLoop(nodes) == SetLast(nodes, "vout", "None")

----------------------------------------------------------------------------
(* _create_nodes: reversal, loop test, junction, parameter t *)

RECURSIVE SumD(_)
SumD(nodes) == IF nodes = <<>> THEN 0 ELSE Last(nodes).d + SumD(Front(nodes))

\* -v of a tangent; None stays None
Neg(v) == CASE v = "vec" -> "-vec" [] v = "-vec" -> "vec" [] OTHER -> v

\* ReverseNodes that reads node['v_out'] after it was overwritten
ReverseNodesNoTemp(nodes) ==
    LET len == Len(nodes)
    IN  [k \in 1..len |->
            LET n == nodes[len + 1 - k]
            IN  [n EXCEPT !.vout = Neg(n.vin),
                          !.vin = Neg(Neg(n.vin)),
                          !.d = IF k = 1 THEN 0 ELSE nodes[len + 2 - k].d]]

\* nodes1.reverse() and the swap of v_in and v_out with negation; the
\* distance to the previous node is that of the old successor
ReverseNodes(nodes) ==
    LET len == Len(nodes)
    IN  [k \in 1..len |->
            LET n == nodes[len + 1 - k]
            IN  [n EXCEPT !.vout = Neg(n.vin),
                          !.vin = IF n.vout = "nokey" THEN "None" ELSE Neg(n.vout),
                          !.d = IF k = 1 THEN 0 ELSE nodes[len + 2 - k].d]]

\* node['v_out'] of a node that has no such key raises KeyError
ReverseRaises(nodes) == \E k \in 1..Len(nodes) : nodes[k].vout = "nokey"

\* _is_loop; near: |nodes[0].p - nodes[-1].p| <= max(5e-4, path_close_tol),
\* long: the summed distances pass 5e-3 (they cannot when all are zero)
IsLoop(nodes, near, long) == IF ~near THEN FALSE ELSE long /\ SumD(nodes) > 0

\* Junction that appends all of nodes2
JunctionKeepSeed(nodes1, nodes2) ==
    SetLast(nodes1, "vout", nodes2[1].vout) \o nodes2

\* self.nodes[-1]['v_out'] = nodes2[0]['v_out']; self.nodes += nodes2[1:]
Junction(nodes1, nodes2) ==
    SetLast(nodes1, "vout", nodes2[1].vout) \o SubSeq(nodes2, 2, Len(nodes2))

\* the accumulated sum of distances up to node k
RECURSIVE CumD(_, _)
CumD(nodes, k) == IF k <= 1 THEN 0 ELSE nodes[k].d + CumD(nodes, k - 1)

\* ParamT without the division by the length
ParamTNoNorm(nodes, k) == <<CumD(nodes, k), 1>>

\* t of node k: the accumulated sum, divided by the whole length where
\* that is not zero (node 0 keeps t = 0.)
ParamT(nodes, k) ==
    LET length == CumD(nodes, Len(nodes))
    IN  IF k = 1 THEN <<0, 1>>
        ELSE IF length # 0 THEN <<CumD(nodes, k), length>>
        ELSE <<CumD(nodes, k), 1>>

\* the tail of _create_nodes: t and the corner tag of every node
Finalize(nodes) ==
    [k \in 1..Len(nodes) |->
        [nodes[k] EXCEPT !.t = ParamT(nodes, k),
                         !.corner = IF @ = "nokey" THEN "False" ELSE @]]

----------------------------------------------------------------------------
(* Inputs of an iteration *)

\* outcomes of the Runge-Kutta step <<rk, zero, d>>: rk as in Adapt, zero
\* field at the new point, distance d of the new point (0 only when the
\* two estimates agree on the old point, diff = 0)
RKCases ==
    {<<"verr", FALSE, 1>>, <<"rej", FALSE, 1>>, <<"acc1", FALSE, 1>>,
     <<"acc0", FALSE, 0>>, <<"acc0", TRUE, 1>>}

\* values of dpole*cv*max(.9, 1-.1*dpole*cv) when h > 0.99 dpole
SlowSet(h) == {1, h \div 2}

\* sign of the stop function at the seed
SeedGSet(sign) == IF HasStop(sign) THEN {"in", "edge", "out"} ELSE {"na"}

----------------------------------------------------------------------------
(* Actions of the constructor *)

IterGuard == pc = "loop" /\ LoopCond(part.i, part.l)

\* i += 1
Begin(P) == [P EXCEPT !.i = @ + 1]

\* the end of an iteration: next iteration, or the code behind the loop
Finish(P) ==
    /\ iters' = iters + 1
    /\ passed' = IF P.brk = "continue" THEN passed + 1 ELSE passed
    /\ IF P.brk \in {"", "continue"}
       THEN part' = [P EXCEPT !.brk = ""] /\ pc' = "loop"
       ELSE part' = [P EXCEPT !.nodes = AfterLoop(@)] /\ pc' = "ret"
    /\ UNCHANGED <<lineArgs, self_nodes, exc, is_loop, fieldVars, restVars>>

\* _create_nodes calls _create_nodes_part(1., ...) for 'forward'
CallForward ==
    /\ pc = "call" /\ directions = "forward"
    /\ \E g0 \in SeedGSet(1) : part' = PartInit(1, g0)
    /\ pc' = "loop"
    /\ UNCHANGED <<lineArgs, self_nodes, iters, passed, exc, is_loop, fieldVars, restVars>>

\* _create_nodes calls _create_nodes_part(-1., ...) otherwise
CallBackward ==
    /\ pc = "call" /\ directions # "forward"
    /\ \E g0 \in SeedGSet(-1) : part' = PartInit(-1, g0)
    /\ pc' = "loop"
    /\ UNCHANGED <<lineArgs, self_nodes, iters, passed, exc, is_loop, fieldVars, restVars>>

\* an iteration without a special case
IterPlain ==
    /\ IterGuard
    /\ Len(part.nodes) = 1 => d_start = -1
    /\ \E c \in RKCases, g \in GSet(part.sign) :
           Finish(IterRest(Begin(part), c[1], c[2], c[3], g))

\* the first iteration of a start from a dipole
IterDipoleStart ==
    /\ IterGuard
    /\ Len(part.nodes) = 1 /\ d_start # -1
    /\ \E c \in RKCases, g1 \in GSet(part.sign), g \in GSet(part.sign) :
           Finish(IterRest(DipoleStart(Begin(part), g1), c[1], c[2], c[3], g))

\* the path closes at the start point
IterClosed ==
    /\ IterGuard
    /\ Len(part.nodes) > 1 /\ part.l > CloseL
    /\ Finish(BreakNone(Begin(part), "closed"))

\* the start point is near and ahead: slow down
IterSlowDown ==
    /\ IterGuard
    /\ Len(part.nodes) > 1
    /\ \E x \in SlowSet(part.h), c \in RKCases, g \in GSet(part.sign) :
           Finish(IterRest(SlowDown(Begin(part), x), c[1], c[2], c[3], g))

\* a monopole is near and ahead
IterMonopole ==
    /\ IterGuard
    /\ Len(part.nodes) > 1 /\ "monopole" \in poles
    /\ \E g \in GSet(part.sign) : Finish(MonopoleArrival(Begin(part), g))

\* a dipole is near and ahead
IterDipole ==
    /\ IterGuard
    /\ Len(part.nodes) > 1 /\ "dipole" \in poles
    /\ \E g1 \in GSet(part.sign), g2 \in GSet(part.sign), closes \in BOOLEAN :
           Finish(DipoleArrival(Begin(part), g1, g2, closes))

\* no pole is near, h < 0.01 and the direction bends like a corner
IterCorner ==
    /\ IterGuard
    /\ Len(part.nodes) > 1 /\ part.h < CornerH
    /\ \E g1 \in GSet(part.sign), g2 \in GSet(part.sign),
          closes \in BOOLEAN, edge \in BOOLEAN,
          c \in RKCases, g \in GSet(part.sign) :
           LET Q == Corner(Begin(part), g1, g2, closes, edge)
           IN  Finish(IF Q.brk # "" THEN Q ELSE IterRest(Q, c[1], c[2], c[3], g))

\* the while condition ends the loop
LoopExit ==
    /\ pc = "loop" /\ ~LoopCond(part.i, part.l)
    /\ part' = [part EXCEPT !.nodes = AfterLoop(@), !.brk = "limit"]
    /\ pc' = "ret"
    /\ UNCHANGED <<lineArgs, self_nodes, iters, passed, exc, is_loop, fieldVars, restVars>>

\* directions == 'forward': self.nodes is the part
ReturnForward ==
    /\ pc = "ret" /\ directions = "forward"
    /\ self_nodes' = Finalize(part.nodes)
    /\ pc' = "done"
    /\ UNCHANGED <<lineArgs, part, iters, passed, exc, is_loop, fieldVars, restVars>>

\* the sign = -1 part returns: reversal; for 'both' the loop test and,
\* if the list is no loop, the call of the sign = +1 part
ReturnBackward ==
    /\ pc = "ret" /\ directions # "forward" /\ part.sign = -1
    /\ IF ReverseRaises(part.nodes)
       THEN exc' = "KeyError" /\ pc' = "raised"
            /\ UNCHANGED <<part, self_nodes, is_loop>>
       ELSE LET nodes1 == ReverseNodes(part.nodes)
            IN  /\ exc' = exc
                /\ \/ /\ directions = "backward"
                      /\ self_nodes' = Finalize(nodes1)
                      /\ pc' = "done" /\ part' = part /\ is_loop' = is_loop
                   \/ /\ directions = "both"
                      /\ \E near \in BOOLEAN, long \in BOOLEAN :
                            IF IsLoop(nodes1, near, long)
                            THEN /\ self_nodes' = Finalize(nodes1)
                                 /\ pc' = "done" /\ part' = part
                                 /\ is_loop' = "loop"
                            ELSE /\ self_nodes' = nodes1
                                 /\ is_loop' = "open"
                                 /\ \E g0 \in SeedGSet(1) : part' = PartInit(1, g0)
                                 /\ pc' = "loop"
    /\ UNCHANGED <<lineArgs, iters, passed, fieldVars, restVars>>

\* the sign = +1 part of 'both' returns: junction
ReturnSecond ==
    /\ pc = "ret" /\ directions = "both" /\ part.sign = 1
    /\ self_nodes' = Finalize(Junction(self_nodes, part.nodes))
    /\ pc' = "done"
    /\ UNCHANGED <<lineArgs, part, iters, passed, exc, is_loop, fieldVars, restVars>>

LineNext ==
    \/ CallForward \/ CallBackward
    \/ IterPlain \/ IterDipoleStart \/ IterClosed \/ IterSlowDown
    \/ IterMonopole \/ IterDipole \/ IterCorner
    \/ LoopExit
    \/ ReturnForward \/ ReturnBackward \/ ReturnSecond

----------------------------------------------------------------------------
(* Field.F and Field.V.  An element is [kind, key, a, b, raises]:           *)
(*   kind "homogeneous": par = {'Fx': a, 'Fy': b}; raises: par lacks a key  *)
(*   kind "custom", key "f", "F": the callback returns array([a, b])        *)
(*   kind "custom", key "V": the callback is the potential -(a x + b y)     *)
(*   raises: the callback raises an exception                               *)
(*   kind "potential": par = {'V': a}, a constant potential without field   *)
(* Coordinates are whole numbers of d = 1e-6, the finite difference step.   *)

VAdd(u, v) == <<u[1] + v[1], u[2] + v[2]>>

\* Field.F_homogeneous
F_homogeneous(p, Fx, Fy) == <<Fx, Fy>>

\* Field.V_homogeneous
V_homogeneous(p, Fx, Fy) == -p[1] * Fx - p[2] * Fy

\* Field.V_potential
V_potential(p, v) == v

\* the potential callback par['V'] of a custom element
CallV(el, p) == -(el.a * p[1] + el.b * p[2])

\* one pass of the loop of Field.V: what the element adds to Vsum, 0 when
\* it raises (the exception is caught) or has no potential
VTerm(el, p) ==
    IF el.raises THEN 0
    ELSE IF el.kind = "homogeneous" THEN V_homogeneous(p, el.a, el.b)
    ELSE IF el.kind = "custom" /\ el.key = "V" THEN CallV(el, p)
    ELSE IF el.kind = "potential" THEN V_potential(p, el.a)
    ELSE 0

\* Field.V(xy) of the field with these elements
RECURSIVE V(_, _)
V(els, p) == IF els = <<>> THEN 0 ELSE V(Front(els), p) + VTerm(Last(els), p)

\* the field computed numerically from the potential self.V, d = 1
FromPotential(all, p) ==
    <<(V(all, <<p[1] - 1, p[2]>>) - V(all, <<p[1] + 1, p[2]>>)) \div 2,
      (V(all, <<p[1], p[2] - 1>>) - V(all, <<p[1], p[2] + 1>>)) \div 2>>

\* one pass of the loop of Field.F: what the element adds to Fxy; all is
\* self.elements
FTerm(all, el, p) ==
    IF el.kind = "homogeneous"
    THEN IF el.raises THEN <<0, 0>> ELSE F_homogeneous(p, el.a, el.b)
    ELSE IF el.kind = "custom" /\ el.key \in {"f", "F"}
    THEN IF el.raises THEN <<0, 0>> ELSE <<el.a, el.b>>
    ELSE IF el.kind = "custom" /\ el.key = "V" THEN FromPotential(all, p)
    ELSE <<0, 0>>

\* the loop of Field.F over the first k elements
RECURSIVE FLoop(_, _, _)
FLoop(all, k, p) ==
    IF k = 0 THEN <<0, 0>> ELSE VAdd(FLoop(all, k - 1, p), FTerm(all, all[k], p))

\* Field(els).F(p)
F(els, p) == FLoop(els, Len(els), p)

Kinds == {<<"homogeneous", "">>, <<"custom", "f">>, <<"custom", "F">>,
          <<"custom", "V">>, <<"potential", "">>}
Coefs == {<<1, 0>>, <<0, 2>>}
Elements ==
    {[kind |-> k[1], key |-> k[2], a |-> c[1], b |-> c[2], raises |-> r] :
        k \in Kinds \ {<<"potential", "">>}, c \in Coefs, r \in BOOLEAN}
    \cup {[kind |-> "potential", key |-> "", a |-> 1, b |-> 0, raises |-> FALSE]}
Points == {<<0, 0>>, <<3, -2>>}

RECURSIVE SeqsUpTo(_, _)
SeqsUpTo(S, n) ==
    IF n = 0 THEN {<<>>}
    ELSE LET shorter == SeqsUpTo(S, n - 1)
         IN  shorter \cup {Append(q, e) : q \in shorter, e \in S}

\* a Field is constructed and F is to be called at xy
FieldInit ==
    /\ pc = "field"
    /\ elements \in SeqsUpTo(Elements, MaxElements)
    /\ xy \in Points
    /\ Fres = <<0, 0>>
    /\ directions = "forward" /\ maxn = 0 /\ maxr = 0 /\ hmax = -1
    /\ pass_dipoles = 0 /\ d_start = -1 /\ stop_funcs = <<>> /\ poles = {}
    /\ part = PartInit(0, "na") /\ self_nodes = <<>>
    /\ iters = 0 /\ passed = 0 /\ exc = "none" /\ is_loop = "untested"
    /\ RestIdle

\* the call Field.F(xy)
CallF ==
    /\ pc = "field"
    /\ Fres' = F(elements, xy)
    /\ pc' = "F_returned"
    /\ UNCHANGED <<lineArgs, part, self_nodes, iters, passed, exc, is_loop, elements, xy, restVars>>

SpecField == FieldInit /\ [][CallF]_vars

----------------------------------------------------------------------------
(* Arguments of the constructor *)

\* the defaults hmax = 1.0 and maxr = 300.0
HMaxDefault == 128
MaxRDefault == 4096

Directions == {"forward", "backward", "both"}
\* stop_funcs: a function for sign = -1 only, or for sign = +1 only
StopFuncs == {<<TRUE, FALSE>>, <<FALSE, TRUE>>}
\* the field's poles with pass_dipoles and start_d (None is -1, else the
\* length of the vector); 'both' runs without poles or through one dipole
Fields(dir) ==
    {[poles |-> {}, pd |-> 0, ds |-> -1],
     [poles |-> {"dipole"}, pd |-> 1, ds |-> -1]}
    \cup IF dir = "both" THEN {}
         ELSE {[poles |-> {"monopole"}, pd |-> 0, ds |-> -1],
               [poles |-> {"dipole"}, pd |-> 0, ds |-> -1],
               [poles |-> {"dipole"}, pd |-> 1, ds |-> 24]}
\* hmax and maxr: the defaults, an hmax of 2 err and a maxr that the first
\* step reaches; 'both' runs with the defaults
Limits(dir) ==
    IF dir = "both" THEN {<<HMaxDefault, MaxRDefault>>}
    ELSE {2 * Err, HMaxDefault} \X {HInit, MaxRDefault}

NoField == <<>>

LineInit ==
    /\ pc = "call"
    /\ directions \in Directions
    /\ maxn \in 0..MaxN
    /\ \E lim \in Limits(directions) : hmax = lim[1] /\ maxr = lim[2]
    /\ \E fld \in Fields(directions) :
          poles = fld.poles /\ pass_dipoles = fld.pd /\ d_start = fld.ds
    /\ stop_funcs \in StopFuncs
    /\ part = PartInit(0, "na")
    /\ self_nodes = <<>>
    /\ iters = 0 /\ passed = 0 /\ exc = "none" /\ is_loop = "untested"
    /\ RestIdle
    /\ elements = NoField /\ xy = <<0, 0>> /\ Fres = <<0, 0>>

Spec == LineInit /\ [][LineNext]_vars

----------------------------------------------------------------------------
(* get_position and get_polylines of a constructed line.                   *)
(* The parameter t is counted in quarters of a node interval: node k       *)
(* (from 1) has T = 4 (k - 1), so t = 0 is T = 0 and t = 1 is T = TOne.    *)
(* A root that brentq finds between node k and node k + 1 is T = 4 k - 2,  *)
(* the points that _get_polyline samples between are the odd T.            *)
(* geom.inside[k]: _out_of_bounds(nodes[k].p) <= 0;  geom.mid[k]: the same *)
(* for the sampled points strictly between node k and node k + 1 when both *)
(* nodes are inside (between a root and an inside node they are inside);   *)
(* geom.gap: |get_position(1) - get_position(0)| is "shut" (<= 1e-5),      *)
(* "near" (within the closing tolerance of the integrator) or "far".       *)

TNode(k) == 4 * (k - 1)
TOne(nodes) == TNode(Len(nodes))

\* list_interpolate on the list of the nodes' t
list_interpolate(nodes, T) ==
    LET len == Len(nodes)
        idx == IF T < 0 THEN 0 ELSE IF T > TOne(nodes) THEN len - 1 ELSE T \div 4
        frac == IF T < 0 \/ T > TOne(nodes) THEN 0 ELSE T % 4
    IN  IF idx > 0 /\ idx >= len - 1
        THEN [n |-> len - 2, p |-> frac + 4 * (idx - (len - 2))]
        ELSE [n |-> idx, p |-> frac]

\* get_position(t): the node interval and the place in it that the Hermite
\* interpolation is evaluated at
get_position(nodes, T) ==
    IF Len(nodes) = 1 THEN [n |-> 0, p |-> 0]
    ELSE list_interpolate(nodes, IF T # TOne(nodes) THEN T % TOne(nodes) ELSE T)

\* the t of the corners, with 0. and 1. added
CornerTs(nodes) ==
    {TNode(k) : k \in {j \in 1..Len(nodes) : nodes[j].corner = "True"}}
        \cup {0, TOne(nodes)}

\* edges[-1]['t1'] = T
SetT1(edges, T) == [edges EXCEPT ![Len(edges)] = [@ EXCEPT !.t1 = T, !.has_t1 = TRUE]]

\* edges.append({'t0': T})
NewEdge(edges, T) == Append(edges, [t0 |-> T, t1 |-> 0, has_t1 |-> FALSE])

\* CloseAtEnd that never closes the last edge
CloseAtEndNever(edges, i, nodes) == edges

\* if i == len(self.nodes) - 1: edges[-1]['t1'] = 1.
CloseAtEnd(edges, i, nodes) == IF i = Len(nodes) THEN SetT1(edges, TOne(nodes)) ELSE edges

\* the state before the walk through the nodes
WalkInit ==
    [edges |-> IF geom.inside[1] THEN NewEdge(<<>>, 0) ELSE <<>>,
     inside1 |-> geom.inside[1]]

\* one turn of the loop over the nodes, i from 2
WalkStep(W, i, nodes) ==
    LET root == TNode(i) - 2
    IN  IF geom.inside[i]
        THEN [edges |-> CloseAtEnd(IF ~W.inside1 THEN NewEdge(W.edges, root)
                                   ELSE W.edges, i, nodes),
              inside1 |-> TRUE]
        ELSE [edges |-> IF W.inside1 THEN SetT1(W.edges, root) ELSE W.edges,
              inside1 |-> FALSE]

RECURSIVE Walk(_, _, _)
Walk(W, i, nodes) ==
    IF i > Len(nodes) THEN W ELSE Walk(WalkStep(W, i, nodes), i + 1, nodes)

\* edges[-1]['t1'] of an edge without 't1' raises KeyError
JoinRaises(edges) == Len(edges) > 1 /\ edges[1].t0 = 0 /\ ~Last(edges).has_t1

\* join first and last segment
JoinEnds(edges, nodes) ==
    IF /\ Len(edges) > 1 /\ edges[1].t0 = 0
       /\ Last(edges).t1 = TOne(nodes) /\ geom.gap = "shut"
    THEN [Front(edges) EXCEPT ![1] = [@ EXCEPT !.t0 = Last(edges).t0 - TOne(nodes)]]
    ELSE edges

\* EdgeCorners that inserts no corner
EdgeCornersNone(edge, nodes) == {}

\* (c - edge['t0']) % 1 + edge['t0'] for the corners c, those kept that lie
\* strictly between t0 and t1
EdgeCorners(edge, nodes) ==
    {c \in {((k - edge.t0) % TOne(nodes)) + edge.t0 : k \in CornerTs(nodes)} :
        edge.t0 < c /\ c < edge.t1}

\* sorted(set(...)) as a list
RECURSIVE Sorted(_)
Sorted(S) ==
    IF S = {} THEN <<>>
    ELSE LET least == CHOOSE x \in S : \A y \in S : x <= y
         IN  <<least>> \o Sorted(S \ {least})

\* the points of _get_polyline(a, b): a, the sampled points between, b
RECURSIVE Samples(_, _)
Samples(a, b) ==
    IF a >= b THEN <<>>
    ELSE (IF a % 2 = 1 THEN <<a>> ELSE <<>>) \o Samples(a + 1, b)
Piece(a, b) == <<a>> \o Samples(a + 1, b) \o <<b>>

\* line += pl for the first piece, line += pl[1:] for the others
RECURSIVE Pieces(_, _)
Pieces(t_list, i) ==
    IF i > Len(t_list) THEN <<>>
    ELSE LET pl == Piece(t_list[i - 1], t_list[i])
         IN  (IF i = 2 THEN pl ELSE Tail(pl)) \o Pieces(t_list, i + 1)

\* the polyline of an interval, or none if it has fewer than two points
EdgePolyline(edge, nodes) ==
    LET t_list == <<edge.t0>> \o Sorted(EdgeCorners(edge, nodes)) \o <<edge.t1>>
        line == Pieces(t_list, 2)
    IN  IF Len(line) >= 2
        THEN <<[path |-> line, t0 |-> edge.t0, t1 |-> edge.t1,
                start |-> (edge.t0 = 0), end |-> (edge.t1 = TOne(nodes))]>>
        ELSE <<>>

RECURSIVE EdgePolylines(_, _)
EdgePolylines(edges, nodes) ==
    IF edges = <<>> THEN <<>>
    ELSE EdgePolyline(Head(edges), nodes) \o EdgePolylines(Tail(edges), nodes)

\* get_polylines: [exc, lines]
get_polylines(nodes) ==
    IF Len(nodes) <= 1 THEN [exc |-> "none", lines |-> <<>>]
    ELSE LET walked == Walk(WalkInit, 2, nodes).edges
         IN  IF walked = <<>> THEN [exc |-> "none", lines |-> <<>>]
             ELSE IF JoinRaises(walked) \/ \E k \in 1..Len(walked) : ~walked[k].has_t1
             THEN [exc |-> "KeyError", lines |-> <<>>]
             ELSE [exc |-> "none",
                   lines |-> EdgePolylines(JoinEnds(walked, nodes), nodes)]

\* ViewNodes that clears the corner tags it has read
ViewNodesCleared(nodes) == [k \in 1..Len(nodes) |-> [nodes[k] EXCEPT !.corner = "False"]]

\* self.nodes after get_position or get_polylines: both only read the list
ViewNodes(nodes) == nodes

(* Lines to look at *)

\* most nodes of a line that is looked at
MaxNodes == 4
\* most calls on one line
MaxCalls == 2

\* a finalized list of n nodes with equal distances and at most one corner
ViewNodeLists(n) ==
    {[k \in 1..n |->
        [vin |-> IF k = 1 THEN "None" ELSE "vec",
         vout |-> IF k = n THEN "None" ELSE "vec",
         corner |-> IF c[k] THEN "True" ELSE "False",
         g |-> "na", d |-> IF k = 1 THEN 0 ELSE 1,
         t |-> IF k = 1 THEN <<0, 1>> ELSE <<k - 1, n - 1>>,
         at |-> "path"]] :
        c \in {f \in [1..n -> BOOLEAN] : Cardinality({k \in 1..n : f[k]}) <= 1}}

\* what the bounds give along a line of n nodes; end points that meet are
\* on the same side of the bounds, and the line crosses the bounds once
\* between an inside and an outside node
Geoms(n) ==
    {gm \in [inside : [1..n -> BOOLEAN], mid : [1..(n - 1) -> BOOLEAN],
             gap : {"far", "near", "shut"}] :
        /\ gm.gap # "far" => gm.inside[1] = gm.inside[n]
        /\ \A k \in 1..(n - 1) : ~(gm.inside[k] /\ gm.inside[k + 1]) => gm.mid[k]
        /\ n = 1 => gm.gap = "shut"}

\* the t that get_position is asked for
PositionTs(nodes) == {-1, 1, TOne(nodes)}

LineIdle ==
    /\ directions = "forward" /\ maxn = 0 /\ maxr = 0 /\ hmax = -1
    /\ pass_dipoles = 0 /\ d_start = -1 /\ stop_funcs = <<>> /\ poles = {}
    /\ part = PartInit(0, "na")
    /\ iters = 0 /\ passed = 0 /\ exc = "none" /\ is_loop = "untested"
FieldIdle == elements = NoField /\ xy = <<0, 0>> /\ Fres = <<0, 0>>

\* a constructed line and a bounds argument
ViewInit ==
    /\ pc = "view"
    /\ \E n \in 1..MaxNodes : self_nodes \in ViewNodeLists(n) /\ geom \in Geoms(n)
    /\ polyline = <<>> /\ position = <<>> /\ calls = <<>>
    /\ refine = <<>> /\ plane = <<>> /\ dct = <<>> /\ fcall = <<>>
    /\ LineIdle /\ FieldIdle

\* the call get_polylines(digits, maxdist, bounds)
CallGetPolylines ==
    /\ pc = "view" /\ Len(calls) < MaxCalls
    /\ LET res == get_polylines(self_nodes)
       IN  polyline' = res.lines /\ exc' = res.exc
    /\ self_nodes' = ViewNodes(self_nodes)
    /\ calls' = Append(calls, [f |-> "get_polylines", T |-> 0])
    /\ UNCHANGED <<pc, lineArgs, part, iters, passed, is_loop, fieldVars,
                   geom, position, refine, plane, dct, fcall>>

\* the call get_position(t)
CallGetPosition ==
    /\ pc = "view" /\ Len(calls) < MaxCalls
    /\ \E T \in PositionTs(self_nodes) :
          /\ position' = get_position(self_nodes, T)
          /\ calls' = Append(calls, [f |-> "get_position", T |-> T])
    /\ self_nodes' = ViewNodes(self_nodes)
    /\ UNCHANGED <<pc, lineArgs, part, iters, passed, exc, is_loop, fieldVars,
                   geom, polyline, refine, plane, dct, fcall>>

SpecView == ViewInit /\ [][CallGetPolylines \/ CallGetPosition]_vars

\* ---------------------------------------------------------------------------
\* FieldLine._get_polyline: the refinement of one piece of a polyline.
\* The bend of an interval is counted in steps of the factor 1.1 above the
\* tolerance 0.1 ** digits: level b stands for
\*   0.1 ** digits * 1.1 ** (b - 1) < bend <= 0.1 ** digits * 1.1 ** b,
\* level 1 also for every smaller bend.  A measured list is summarised by the
\* largest bend among its intervals longer than 1.1 * mindist (mN), the
\* largest bend among the shorter ones (mS), -1 where there is none, and
\* whether an interval is longer than 1.1 * maxdist.
\* ---------------------------------------------------------------------------
Linspace == 10
GiveUp == 50
LateNum == 10
LateShift == 8
RatioLo == 25
RatioHi == 400
RatioOk == 110
BendOver == GiveUp - LateShift
MaxIntervals == 9

Bends == {1, 2, 3, BendOver}
Measures ==
    { m \in [mN : {-1} \cup Bends, mS : {-1} \cup Bends, long : BOOLEAN] :
        m.mN # -1 \/ m.mS # -1 \/ m.long }

\* 1 / exponent
Exponent(num) == IF num > LateNum THEN num - LateShift ELSE 2

\* ratio <= 1.1 on every interval, the point distance left out
SuccessBendOnly(m, num) == m.mN <= Exponent(num)

\* ratio <= 1.1 on every interval of the measured list
Success(m, num) == ~m.long /\ m.mN <= Exponent(num)

CeilHundredths(s) == (s + 99) \div 100

\* N = max(1, ceil(sum(ratios))), the ratios clipped to [0.25, 4] and those
\* of a successful measurement at most 1.1
NewN(n, success) ==
    LET lo == IF success THEN RatioLo * n ELSE RatioOk + 1 + RatioLo * (n - 1)
        hi == IF success THEN RatioOk * n ELSE RatioHi * n
    IN  { k \in 1..MaxIntervals :
            /\ k >= CeilHundredths(lo)
            /\ k <= CeilHundredths(hi) }

\* a list of t with n intervals; first and last name its end values
NoList == [n |-> 0, first |-> "", last |-> ""]

\* t_list = sc.linspace(t0, t1, 10)
Linspaced == [n |-> Linspace - 1, first |-> "t0", last |-> "t1"]

\* Rearranged without t_list.append(t1)
RearrangedOpen(k) == [n |-> k - 1, first |-> "t0", last |-> "inner"]

\* rearrange t_list: [t0], the inner points, t_list.append(t1)
Rearranged(k) == [n |-> k, first |-> "t0", last |-> "t1"]

\* best: what is known of value_list_best: "None", or a list that is
\* "unmeasured", or was measured with "success" or "failed";
\* best_cur: value_list_best is value_list
RefineInit ==
    [pc |-> "loop", t_list |-> Linspaced, num |-> 0, num_success |-> 0,
     had_success |-> FALSE, N |-> 0, N_best |-> 0, maxd_best |-> "inf",
     best |-> "None", best_cur |-> FALSE, t_list_best |-> NoList,
     exit |-> "", at |-> 0,
     ret |-> [mN |-> -1, mS |-> -1, long |-> FALSE], ret_list |-> NoList]

\* return list: the call is over, of its locals the counters stay on
\* record and, for the give-up, what was known of value_list_best
Returned(R, exit, m, list) ==
    [RefineInit EXCEPT
        !.pc = "done", !.exit = exit, !.ret = m, !.ret_list = list,
        !.num = R.num, !.num_success = R.num_success, !.N = R.N,
        !.t_list = R.t_list,
        !.at = IF exit = "three" THEN R.num - 1 ELSE 0,
        !.had_success = IF exit = "giveup" THEN R.had_success ELSE FALSE,
        !.best = IF exit = "giveup" THEN R.best ELSE "None"]

\* N < N_best, N_best = 0 standing for float('inf')
LessBest(k, R) == R.N_best = 0 \/ k < R.N_best

\* Streak that keeps counting while the interval number falls
StreakKept(ns, k, n) == ns

\* if num_success > 2 and N < N_old: num_success = 2
Streak(ns, k, n) == IF ns > 2 /\ k < n THEN 2 ELSE ns

\* one pass of "while len(t_list) > 2" that measures m, finds the new
\* interval number k and (maxd < maxd_best) = closer
Pass(R, m, k, closer) ==
    LET success == Success(m, R.num)
        had     == R.had_success \/ success
        num     == R.num + 1
        ns0     == IF success THEN R.num_success + 1 ELSE 0
        ns      == Streak(ns0, k, R.t_list.n)
        known   == IF R.best_cur
                   THEN IF success THEN "success" ELSE "failed"
                   ELSE R.best
        R1      == [R EXCEPT !.had_success = had, !.num = num,
                             !.num_success = ns, !.N = k, !.best = known]
        lower   == R.maxd_best = "inf" \/ closer
    IN  IF ns >= 3
        THEN Returned(R1, "three", m, R.t_list)
        ELSE IF num >= GiveUp
        THEN IF R.best # "None"
             THEN [R1 EXCEPT !.pc = "best", !.exit = "giveup"]
             ELSE Returned(R1, "giveup", m, R.t_list)
        ELSE LET R2 == [R1 EXCEPT !.t_list = Rearranged(k), !.best_cur = FALSE]
                 R3 == IF had
                       THEN IF success /\ LessBest(k, R)
                            THEN [R2 EXCEPT !.N_best = k, !.best = "unmeasured",
                                            !.best_cur = TRUE,
                                            !.t_list_best = R2.t_list]
                            ELSE R2
                       ELSE IF lower
                            THEN [R2 EXCEPT !.maxd_best = "fin",
                                            !.best = "unmeasured",
                                            !.best_cur = TRUE,
                                            !.t_list_best = R2.t_list]
                            ELSE R2
             IN  IF R3.t_list.n + 1 > 2 THEN R3
                 ELSE [R3 EXCEPT !.pc = "unmeasured", !.exit = "shrunk"]

\* the measurements that lead to different states: a pass reads no more
\* of a measurement than its success, unless it is the pass that returns
\* the measured list after a third success
MeasuresAt(R) ==
    {m \in Measures :
        IF Success(m, R.num)
        THEN R.num_success = 2 \/ m = [mN |-> 1, mS |-> -1, long |-> FALSE]
        ELSE m = [mN |-> BendOver, mS |-> -1, long |-> TRUE]}

\* maxd < maxd_best, compared only before the first success
Closer(R, m) ==
    IF R.had_success \/ Success(m, R.num) \/ R.maxd_best = "inf"
    THEN {FALSE} ELSE BOOLEAN

LineViewIdle == LineIdle /\ FieldIdle /\ ViewIdle /\ self_nodes = <<>>

RefineStart ==
    /\ pc = "refine"
    /\ refine = RefineInit
    /\ plane = <<>> /\ dct = <<>> /\ fcall = <<>>
    /\ LineViewIdle

\* one pass of the loop of _get_polyline
RefinePass ==
    /\ pc = "refine" /\ refine.pc = "loop"
    /\ \E m \in MeasuresAt(refine) :
         \E k \in NewN(refine.t_list.n, Success(m, refine.num)),
            closer \in Closer(refine, m) :
            refine' = Pass(refine, m, k, closer)
    /\ UNCHANGED <<pc, lineArgs, part, self_nodes, iters, passed, exc,
                   is_loop, fieldVars, viewVars, plane, dct, fcall>>

\* a list that was never measured is returned: value_list_best at the
\* give-up, or the list of two points that ended the loop
RefineReturn ==
    /\ pc = "refine" /\ refine.pc \in {"best", "unmeasured"}
    /\ \E m \in Measures :
          refine' = Returned(refine, refine.exit, m,
                             IF refine.pc = "best" THEN refine.t_list_best
                             ELSE refine.t_list)
    /\ UNCHANGED <<pc, lineArgs, part, self_nodes, iters, passed, exc,
                   is_loop, fieldVars, viewVars, plane, dct, fcall>>

SpecRefine == RefineStart /\ [][RefinePass \/ RefineReturn]_vars

\* ---------------------------------------------------------------------------
\* Field.F_charged_plane on a grid of integer points.  With a = (x0, y0),
\* b = (x1, y1) and den = |b - a|^2 the coordinates along and across the
\* plane are r = rnum / den and z = znum / den.
\* ---------------------------------------------------------------------------
PlaneGrid == 1

GridPoints == (-PlaneGrid..PlaneGrid) \X (-PlaneGrid..PlaneGrid)
Abs(i) == IF i < 0 THEN -i ELSE i
PlaneDen(a, b) == (b[1] - a[1]) * (b[1] - a[1]) + (b[2] - a[2]) * (b[2] - a[2])
PlaneRnum(p, a, b) ==
    (2 * p[1] - a[1] - b[1]) * (b[1] - a[1])
        + (2 * p[2] - a[2] - b[2]) * (b[2] - a[2])
PlaneZnum(p, a, b) ==
    (2 * p[1] - a[1] - b[1]) * (b[2] - a[2])
        - (2 * p[2] - a[2] - b[2]) * (b[1] - a[1])

\* fabs(arg) >= 1. for arg = 2. * r / (1. + r * r + z * z)
PlaneSingular(p, a, b) ==
    LET den == PlaneDen(a, b)
        rn  == PlaneRnum(p, a, b)
        zn  == PlaneZnum(p, a, b)
    IN  2 * Abs(rn) * den >= den * den + rn * rn + zn * zn

\* the name bound at the singularity
SingularBinds == "F"

F_charged_plane(p, a, b) ==
    IF PlaneDen(a, b) = 0
    THEN [raises |-> "ZeroDivisionError", Fr |-> "unbound", Fz |-> "unbound"]
    ELSE LET Fz == IF PlaneZnum(p, a, b) = 0 THEN "0" ELSE "atan"
             Fr == IF PlaneSingular(p, a, b)
                   THEN IF SingularBinds = "Fr" THEN "r" ELSE "unbound"
                   ELSE "atanh"
         IN  IF Fr = "unbound"
             THEN [raises |-> "UnboundLocalError", Fr |-> Fr, Fz |-> Fz]
             ELSE [raises |-> "none", Fr |-> Fr, Fz |-> Fz]

\* Field.F: Fxy += F_charged_plane(...) inside try / except Exception
PlaneInF(res) == IF res.raises = "none" THEN "added" ELSE "skipped"

PlaneInit ==
    /\ pc = "plane"
    /\ \E p \in GridPoints, a \in GridPoints, b \in GridPoints :
          plane = [xy |-> p, a |-> a, b |-> b, called |-> FALSE,
                   res |-> [raises |-> "none", Fr |-> "unbound",
                            Fz |-> "unbound"],
                   Fxy |-> "zeros"]
    /\ refine = <<>> /\ dct = <<>> /\ fcall = <<>>
    /\ LineViewIdle

\* Field.F(xy) of a field with one charged plane
CallFChargedPlane ==
    /\ pc = "plane" /\ ~plane.called
    /\ LET res == F_charged_plane(plane.xy, plane.a, plane.b)
       IN  plane' = [plane EXCEPT !.called = TRUE, !.res = res,
                                  !.Fxy = PlaneInF(res)]
    /\ UNCHANGED <<pc, lineArgs, part, self_nodes, iters, passed, exc,
                   is_loop, fieldVars, viewVars, refine, dct, fcall>>

SpecPlane == PlaneInit /\ [][CallFChargedPlane]_vars

\* ---------------------------------------------------------------------------
\* Field.convert_oldstyle_dict and the evaluation of the converted field.
\* A legacy dictionary of one key with a list of tuples; an element is a
\* record [kind, par], par a function of the parameter names.
\* ---------------------------------------------------------------------------
MaxTuples == 2

LegacyKeys ==
    {"homogeneous", "monopoles", "dipoles", "quadrupoles", "wires",
     "charged_wires", "charged_planes", "charged_lines", "charged_discs",
     "ringcurrents", "coils", "custom"}

\* the parameters of a kind, in the order of the data model and of the
\* evaluator's arguments
ParamOrder(kind) ==
    CASE kind = "homogeneous"   -> <<"Fx", "Fy">>
      [] kind = "monopole"      -> <<"x", "y", "Q">>
      [] kind = "dipole"        -> <<"x", "y", "px", "py">>
      [] kind = "quadrupole"    -> <<"x", "y", "Qxx", "Qxy", "Qyy">>
      [] kind = "wire"          -> <<"x", "y", "I">>
      [] kind = "charged_wire"  -> <<"x", "y", "q">>
      [] kind = "charged_plane" -> <<"x0", "y0", "x1", "y1", "q">>
      [] kind = "charged_line"  -> <<"x0", "y0", "x1", "y1", "Q">>
      [] kind = "charged_disc"  -> <<"x0", "y0", "x1", "y1", "Q">>
      [] kind = "ringcurrent"   -> <<"x", "y", "phi", "R", "I">>
      [] kind = "coil"          -> <<"x", "y", "phi", "R", "Lhalf", "I">>
      [] OTHER                  -> <<>>

\* the quadrupole of a legacy tuple, the two matrix entries exchanged
QuadrupoleParSwapped(l) ==
    [x |-> l[1], y |-> l[2], Qxx |-> l[4], Qyy |-> l[3], Qxy |-> 0]

\* the quadrupole of a legacy tuple
QuadrupolePar(l) ==
    [x |-> l[1], y |-> l[2], Qxx |-> l[3], Qyy |-> l[4], Qxy |-> 0]

\* el of one tuple l under the key t; "None" for an unknown key
ConvertTuple(t, l) ==
    CASE t = "homogeneous" ->
           [kind |-> "homogeneous", par |-> [Fx |-> l[1], Fy |-> l[2]]]
      [] t = "monopoles" ->
           [kind |-> "monopole", par |-> [x |-> l[1], y |-> l[2], Q |-> l[3]]]
      [] t = "dipoles" ->
           [kind |-> "dipole",
            par |-> [x |-> l[1], y |-> l[2], px |-> l[3], py |-> l[4]]]
      [] t = "quadrupoles" ->
           [kind |-> "quadrupole", par |-> QuadrupolePar(l)]
      [] t = "wires" ->
           [kind |-> "wire", par |-> [x |-> l[1], y |-> l[2], I |-> l[3]]]
      [] t = "charged_wires" ->
           [kind |-> "charged_wire",
            par |-> [x |-> l[1], y |-> l[2], q |-> l[3]]]
      [] t = "charged_planes" ->
           [kind |-> "charged_plane",
            par |-> [x0 |-> l[1], y0 |-> l[2], x1 |-> l[3], y1 |-> l[4],
                     q |-> l[5]]]
      [] t = "charged_lines" ->
           [kind |-> "charged_line",
            par |-> [x0 |-> l[1], y0 |-> l[2], x1 |-> l[3], y1 |-> l[4],
                     Q |-> l[5]]]
      [] t = "charged_discs" ->
           [kind |-> "charged_disc",
            par |-> [x0 |-> l[1], y0 |-> l[2], x1 |-> l[3], y1 |-> l[4],
                     Q |-> l[5]]]
      [] t = "ringcurrents" ->
           [kind |-> "ringcurrent",
            par |-> [x |-> l[1], y |-> l[2], phi |-> l[3], R |-> l[4],
                     I |-> l[5]]]
      [] t = "coils" ->
           [kind |-> "coil",
            par |-> [x |-> l[1], y |-> l[2], phi |-> l[3], R |-> l[4],
                     Lhalf |-> l[5], I |-> l[6]]]
      [] t = "custom" ->
           [kind |-> "custom", par |-> [f |-> l]]
      [] OTHER -> [kind |-> "None", par |-> <<>>]

RECURSIVE ConvertList(_, _, _)
ConvertList(t, it, k) ==
    IF k = 0 THEN <<>>
    ELSE LET el == ConvertTuple(t, it[k])
             before == ConvertList(t, it, k - 1)
         IN  IF el.kind # "None" THEN Append(before, el) ELSE before

convert_oldstyle_dict(d) == ConvertList(d.key, d.it, Len(d.it))

\* F_quadrupole(xy, x, y, Qxx, Qxy, Qyy) times 2 / pre, pre > 0 a function
\* of the distance alone
F_quadrupole(p, x, y, Qxx, Qxy, Qyy) ==
    LET r0  == p[1] - x
        r1  == p[2] - y
        d2  == r0 * r0 + r1 * r1
        Qr0 == Qxx * r0 + Qxy * r1
        Qr1 == Qxy * r0 + Qyy * r1
        rQr == r0 * Qr0 + r1 * Qr1
    IN  IF d2 = 0 THEN <<0, 0>>
        ELSE <<5 * rQr * r0 - 2 * d2 * Qr0, 5 * rQr * r1 - 2 * d2 * Qr1>>

\* the evaluator call of Field.F for one element: its arguments read from
\* par by name, and its value where the model computes it
EvalCall(el, p) ==
    IF el.kind = "custom"
    THEN [kind |-> "custom", args |-> <<el.par["f"]>>, val |-> <<>>]
    ELSE LET names == ParamOrder(el.kind)
             args  == [i \in 1..Len(names) |-> el.par[names[i]]]
         IN  [kind |-> el.kind, args |-> args,
              val |-> IF el.kind = "quadrupole"
                      THEN F_quadrupole(p, args[1], args[2], args[3],
                                        args[4], args[5])
                      ELSE <<>>]

EvalCalls(els, p) == [j \in 1..Len(els) |-> EvalCall(els[j], p)]

\* the tuples seen under a key: rising, falling and constant values
TupleLens(t) ==
    CASE t = "homogeneous" -> {2}
      [] t \in {"monopoles", "wires", "charged_wires"} -> {3}
      [] t = "dipoles" -> {4}
      [] t = "quadrupoles" -> {4, 5}
      [] t = "coils" -> {6}
      [] t = "custom" -> {}
      [] OTHER -> {5}
Tuples(t) ==
    IF t = "custom" THEN {"f1", "f2"}
    ELSE UNION { { [i \in 1..n |-> i], [i \in 1..n |-> n + 1 - i],
                   [i \in 1..n |-> 1] } : n \in TupleLens(t) }

\* Field(dct) is about to be constructed from a legacy dictionary
LegacyInit ==
    /\ pc = "legacy"
    /\ \E t \in LegacyKeys \cup {"sheetcurrents"} :
         \E it \in SeqsUpTo(Tuples(t), MaxTuples) \ {<<>>} :
            dct = [key |-> t, it |-> it, at |-> "dict", elements |-> <<>>,
                   xy |-> <<0, 0>>, F |-> <<>>]
    /\ refine = <<>> /\ plane = <<>> /\ fcall = <<>>
    /\ LineViewIdle

\* Field.__init__ with a dict
ConstructLegacy ==
    /\ pc = "legacy" /\ dct.at = "dict"
    /\ dct' = [dct EXCEPT !.at = "field",
                          !.elements = convert_oldstyle_dict(dct)]
    /\ UNCHANGED <<pc, lineArgs, part, self_nodes, iters, passed, exc,
                   is_loop, fieldVars, viewVars, refine, plane, fcall>>

\* Field.F(xy) of the converted field
CallFLegacy ==
    /\ pc = "legacy" /\ dct.at = "field"
    /\ \E p \in Points :
          dct' = [dct EXCEPT !.at = "called", !.xy = p,
                             !.F = EvalCalls(dct.elements, p)]
    /\ UNCHANGED <<pc, lineArgs, part, self_nodes, iters, passed, exc,
                   is_loop, fieldVars, viewVars, refine, plane, fcall>>

SpecLegacy == LegacyInit /\ [][ConstructLegacy \/ CallFLegacy]_vars

\* ---------------------------------------------------------------------------
\* The special cases at the head of an iteration of _create_nodes_part with
\* more than one node, as a function of what the iteration observes:
\*   type    nearest_pole['type']
\*   dpole   "tiny" (< ytol), "close" (< 0.01), "near" (< 0.1) or "far"
\*   reach   h against dpole: "short" (h <= 0.99 dpole), "just" (between
\*           0.99 dpole and dpole) or "over" (h >= dpole)
\*   cv      "back" (<= 0), "side" (<= 0.9), "ahead" (<= 0.996) or "dead"
\*   lateral dpole * fabs(sv) < ytol;  axial: dpole * fabs(cv) < xtol
\*   long    l > 1e-3;  small: h < 0.01
\*   x       dpole * cv * max(.9, 1 - .1 * dpole * cv) in model units
\* The result names the branch taken, the step size behind it and whether
\* the Runge-Kutta step of the iteration follows.
\* ---------------------------------------------------------------------------
SpecialCases(a) ==
    LET heading == /\ a.dpole # "far" \/ a.reach = "over"
                   /\ a.cv \in {"ahead", "dead"} \/ a.dpole = "tiny"
        closed  == a.lateral /\ a.axial /\ a.long
        slow    == /\ a.reach # "short"
                   /\ a.cv \in {"ahead", "dead"} \/ (a.cv = "side" /\ a.lateral)
        arrive  == a.dpole \in {"tiny", "close"} /\ a.cv = "dead"
        b       == IF heading /\ a.type = "start" /\ ~closed /\ slow
                   THEN SlowDown(a, a.x) ELSE a
    IN  IF heading /\ a.type = "start" /\ closed
        THEN [branch |-> "closed", h |-> a.h, rk |-> FALSE]
        ELSE IF heading /\ a.type = "monopole" /\ arrive
        THEN [branch |-> "monopole", h |-> a.h, rk |-> FALSE]
        ELSE IF heading /\ a.type = "dipole" /\ arrive
        THEN [branch |-> "dipole", h |-> a.h, rk |-> FALSE]
        ELSE IF heading
        THEN [branch |-> IF a.type = "start" /\ slow THEN "slow" ELSE "none",
              h |-> b.h, rk |-> TRUE]
        ELSE [branch |-> IF a.small THEN "corner" ELSE "none",
              h |-> a.h, rk |-> TRUE]

\* an iteration with more than one node is about to look at the poles
ApproachInit ==
    /\ pc = "approach"
    /\ \E a \in [type : {"start", "monopole", "dipole"},
                 dpole : {"tiny", "close", "near", "far"},
                 reach : {"short", "just", "over"},
                 cv : {"back", "side", "ahead", "dead"},
                 lateral : BOOLEAN, axial : BOOLEAN, long : BOOLEAN,
                 small : BOOLEAN, x : {1, 5 * Err}, h : {Err, HInit}] :
          /\ a.dpole = "tiny" => a.lateral
          /\ a.axial /\ a.cv \in {"ahead", "dead"} => a.dpole = "tiny"
          /\ a.small <=> a.h < CornerH
          /\ fcall = [f |-> "special_cases", in |-> a, done |-> FALSE,
                      out |-> [branch |-> "none", h |-> a.h, rk |-> FALSE]]
    /\ refine = <<>> /\ plane = <<>> /\ dct = <<>>
    /\ LineViewIdle

\* the special cases are gone through
CheckSpecialCases ==
    /\ pc = "approach" /\ ~fcall.done
    /\ fcall' = [fcall EXCEPT !.done = TRUE, !.out = SpecialCases(fcall.in)]
    /\ UNCHANGED <<pc, lineArgs, part, self_nodes, iters, passed, exc,
                   is_loop, fieldVars, viewVars, refine, plane, dct>>

SpecApproach == ApproachInit /\ [][CheckSpecialCases]_vars

\* ---------------------------------------------------------------------------
\* Startpath._make_spline: the list of support points is refined by bisection.
\* Parameters t are whole numbers of grid units, t0 = 0; an interval of the
\* first list is Gap0 units long. The field along the path and the path are
\* functions of t that _make_spline samples.
\* ---------------------------------------------------------------------------
MaxSamples == 3
Gap0 == 8
TdifLimit == 2
FdifDen == 100
DistDen == 4
FRamp == 500
FHigh == 3
Jump == 50

T1 == MaxSamples * Gap0

\* self._field_along_path(t) for the field S.field
FieldAlongPath(S, t) ==
    CASE S.field.kind = "flat" -> 1
      [] S.field.kind = "ramp" -> FRamp + t
      [] S.field.kind = "step" -> IF t > S.field.at THEN FHigh ELSE 1
      [] S.field.kind = "peak" -> IF t = S.field.at THEN FHigh ELSE 1

\* vabs(self.startpath(b) - self.startpath(a)) for a <= b
PathDist(S, a, b) ==
    CASE S.path.kind = "still" -> 0
      [] S.path.kind = "straight" -> b - a
      [] S.path.kind = "jump" ->
            (b - a) + (IF a <= S.path.at /\ S.path.at < b THEN Jump ELSE 0)

RECURSIVE SumDist(_, _, _)
SumDist(S, l, j) ==
    IF j >= Len(l) THEN 0 ELSE PathDist(S, l[j], l[j + 1]) + SumDist(S, l, j + 1)

\* sc.linspace(self.t0, self.t1, 201)
Linspace201 == [j \in 1 .. MaxSamples + 1 |-> (j - 1) * Gap0]

ToBisectAnyGap(S, a, b) ==
    \/ Abs(FieldAlongPath(S, b) - FieldAlongPath(S, a)) * FdifDen > S.Fmax
    \/ PathDist(S, a, b) * DistDen > S.pathlen

\* the test that bisects the pair of neighbours (a, b)
ToBisect(S, a, b) ==
    LET tdif_too_small == (b - a) < TdifLimit
        Fdif_is_large ==
            Abs(FieldAlongPath(S, b) - FieldAlongPath(S, a)) * FdifDen > S.Fmax
        dist_is_large == PathDist(S, a, b) * DistDen > S.pathlen
    IN ~tdif_too_small /\ (Fdif_is_large \/ dist_is_large)

SplineInit ==
    /\ pc = "spline"
    /\ \E fk \in [kind : {"flat", "ramp"}, at : {0}]
                   \cup [kind : {"step", "peak"}, at : 0 .. T1],
          pk \in [kind : {"still", "straight"}, at : {0}]
                   \cup [kind : {"jump"}, at : 0 .. T1 - 1] :
          LET S0 == [field |-> fk, path |-> pk]
              Fl == [j \in 1 .. MaxSamples + 1 |-> FieldAlongPath(S0, Linspace201[j])]
          IN fcall = [f |-> "make_spline", pc |-> "refine", field |-> fk,
                      path |-> pk, tlist |-> Linspace201, Flist |-> Fl,
                      pathlen |-> SumDist(S0, Linspace201, 1),
                      Fmax |-> CHOOSE m \in {Fl[j] : j \in DOMAIN Fl} :
                                   \A j \in DOMAIN Fl : Fl[j] <= m,
                      i |-> 1]
    /\ refine = <<>> /\ plane = <<>> /\ dct = <<>>
    /\ LineViewIdle

\* tlist.insert(i, tmean); Flist.insert(i, self._field_along_path(tmean))
Bisect ==
    /\ pc = "spline" /\ fcall.pc = "refine" /\ fcall.i < Len(fcall.tlist)
    /\ LET a == fcall.tlist[fcall.i]
           b == fcall.tlist[fcall.i + 1]
           tmean == (a + b) \div 2
           insert(l, x) ==
               SubSeq(l, 1, fcall.i) \o <<x>> \o SubSeq(l, fcall.i + 1, Len(l))
       IN /\ ToBisect(fcall, a, b)
          /\ fcall' = [fcall EXCEPT
                 !.tlist = insert(@, tmean),
                 !.Flist = insert(@, FieldAlongPath(fcall, tmean))]
    /\ UNCHANGED <<pc, lineArgs, part, self_nodes, iters, passed, exc,
                   is_loop, fieldVars, viewVars, refine, plane, dct>>

\* i += 1
NextPair ==
    /\ pc = "spline" /\ fcall.pc = "refine" /\ fcall.i < Len(fcall.tlist)
    /\ ~ToBisect(fcall, fcall.tlist[fcall.i], fcall.tlist[fcall.i + 1])
    /\ fcall' = [fcall EXCEPT !.i = @ + 1]
    /\ UNCHANGED <<pc, lineArgs, part, self_nodes, iters, passed, exc,
                   is_loop, fieldVars, viewVars, refine, plane, dct>>

\* the loop is left and the spline is made of the lists
FitSpline ==
    /\ pc = "spline" /\ fcall.pc = "refine" /\ fcall.i >= Len(fcall.tlist)
    /\ fcall' = [fcall EXCEPT !.pc = "done"]
    /\ UNCHANGED <<pc, lineArgs, part, self_nodes, iters, passed, exc,
                   is_loop, fieldVars, viewVars, refine, plane, dct>>

SpecSpline == SplineInit /\ [][Bisect \/ NextPair \/ FitSpline]_vars

\* ---------------------------------------------------------------------------
\* The helper functions angle_dif and cel.
\* An angle is a pair <<u, e>>: u eighths of a full turn (pi is Pi of them)
\* plus e times the spacing of the floating-point numbers at pi. From 4.0 on
\* the numbers lie twice as far apart and a sum is rounded to a multiple of
\* that spacing: there e is lost (2*pi has an even last digit, so the tie
\* goes to it).
\* ---------------------------------------------------------------------------
MaxAngle == 12
Pi == 4
TwoPi == 8
RoundFrom == 6
CelMaxI == 10

AngleDifNoShift(a1, a2) == <<(a2[1] - a1[1]) % TwoPi, 0>>

\* ((a2 - a1 + pi) % (2. * pi)) - pi
AngleDif(a1, a2) ==
    LET Round(x) == IF Abs(x[1]) >= RoundFrom THEN <<x[1], 0>> ELSE x
        \* the remainder with the sign of the divisor: a negative fmod(d, y)
        \* has y added to it
        PyMod(d) ==
            LET m == d[1] % TwoPi
            IN Round(IF m = 0 /\ d[2] < 0 THEN <<TwoPi, d[2]>> ELSE <<m, d[2]>>)
        dif == Round(<<a2[1] - a1[1], a2[2] - a1[2]>>)
        r == PyMod(Round(<<dif[1] + Pi, dif[2]>>))
    IN <<r[1] - Pi, r[2]>>

KFloorNone(ratio) == ratio

\* max(1e-16, ratio) of F_charged_disc, F_ringcurrent and F_coil; max
\* returns its first argument unless the second compares greater
KFloor(ratio) == IF ratio = "pos" THEN "pos" ELSE "floor"

AngleInit ==
    /\ pc = "helper"
    /\ \E a1, a2 \in {x \in (-MaxAngle .. MaxAngle) \X (-1 .. 1) :
                         x[2] # 0 => Abs(x[1]) < RoundFrom} :
          fcall = [f |-> "angle_dif", in |-> <<a1, a2>>, done |-> FALSE,
                   out |-> <<0, 0>>]
    /\ refine = <<>> /\ plane = <<>> /\ dct = <<>>
    /\ LineViewIdle

\* cel is called by an evaluator with the floored modulus, or by itself with
\* any kc
CelInit ==
    /\ pc = "helper"
    /\ \E by \in {"F_charged_disc", "F_ringcurrent", "F_coil", "direct"},
          x \in {"zero", "tiny", "pos", "nan", "neg"}, p \in {"pos", "nonpos"} :
          /\ by # "direct" => x # "neg"
          /\ fcall = [f |-> "cel", by |-> by, p |-> p,
                      kc |-> IF by = "direct" THEN x ELSE KFloor(x),
                      pc |-> "enter", i |-> 0, rounds |-> 0, out |-> "none"]
    /\ refine = <<>> /\ plane = <<>> /\ dct = <<>>
    /\ LineViewIdle

CallAngleDif ==
    /\ pc = "helper" /\ fcall.f = "angle_dif" /\ ~fcall.done
    /\ fcall' = [fcall EXCEPT !.done = TRUE,
                              !.out = AngleDif(fcall.in[1], fcall.in[2])]
    /\ UNCHANGED <<pc, lineArgs, part, self_nodes, iters, passed, exc,
                   is_loop, fieldVars, viewVars, refine, plane, dct>>

\* if kc == 0.: return(float('nan')); else the setup before the loop
CelEnter ==
    /\ pc = "helper" /\ fcall.f = "cel" /\ fcall.pc = "enter"
    /\ fcall' = IF fcall.kc = "zero"
                THEN [fcall EXCEPT !.pc = "done", !.out = "nan"]
                ELSE [fcall EXCEPT !.pc = "loop",
                                   !.kc = IF @ = "neg" THEN "pos" ELSE @]
    /\ UNCHANGED <<pc, lineArgs, part, self_nodes, iters, passed, exc,
                   is_loop, fieldVars, viewVars, refine, plane, dct>>

\* one round of the loop; close tells whether fabs(g - kc) <= g * tol, which
\* a NaN never is
CelRound ==
    /\ pc = "helper" /\ fcall.f = "cel" /\ fcall.pc = "loop"
    /\ \E close \in BOOLEAN :
          /\ fcall.kc = "nan" => ~close
          /\ fcall' = IF close \/ fcall.i >= CelMaxI
                      THEN [fcall EXCEPT !.rounds = @ + 1, !.pc = "done",
                                         !.out = IF fcall.kc = "nan" THEN "nan"
                                                 ELSE "value"]
                      ELSE [fcall EXCEPT !.rounds = @ + 1, !.i = @ + 1]
    /\ UNCHANGED <<pc, lineArgs, part, self_nodes, iters, passed, exc,
                   is_loop, fieldVars, viewVars, refine, plane, dct>>

SpecHelpers ==
    (AngleInit \/ CelInit) /\ [][CallAngleDif \/ CelEnter \/ CelRound]_vars

----------------------------------------------------------------------------
(* Properties *)

N == Len(self_nodes)

\* fractions <<numerator, denominator>> with a positive denominator
IsZero(t) == t[2] > 0 /\ t[1] = 0
IsOne(t) == t[2] > 0 /\ t[1] = t[2]
Leq(s, t) == s[2] > 0 /\ t[2] > 0 /\ s[1] * t[2] <= t[1] * s[2]

\* C1: a one-sided integration runs at most maxn iterations of its main
\* loop, and an iteration starts only while i < maxn and l < maxr, whatever
\* branch the iterations take (the counter only moves by one iteration or
\* by the start of the next part).
C1_LoopBounded ==
    /\ [](part.i <= maxn)
    /\ [][part'.i # part.i =>
            \/ part'.i = 0
            \/ /\ pc = "loop" /\ part.i < maxn /\ part.l < maxr
               /\ part'.i = part.i + 1]_vars

\* the loop ended because l reached maxr, with iterations to spare
C1_Witness ==
    pc = "ret" /\ part.brk = "limit" /\ part.l >= maxr /\ 1 <= part.i /\ part.i < maxn

\* C2: the finalized node list is not empty, its first node has
\* v_in = None and its last node has v_out = None.
C2_EndsAbsent ==
    pc = "done" =>
        /\ N >= 1
        /\ self_nodes[1].vin = "None"
        /\ self_nodes[N].vout = "None"

\* a line of both directions whose forward part was clipped by its stop
\* function
C2_Witness ==
    pc = "done" /\ directions = "both" /\ part.brk = "stop" /\ N >= 3

\* C3: in the finalized list every node but the first has a v_in and every
\* node but the last a v_out that is present and not None, and the reversal
\* never reads a missing 'v_out'.
C3_InnerTangents ==
    /\ exc = "none"
    /\ pc = "done" =>
          \A k \in 1..N :
              /\ k >= 2 => self_nodes[k].vin \in {"vec", "-vec", "zero"}
              /\ k <= N - 1 => self_nodes[k].vout \in {"vec", "-vec", "zero"}

\* a line of both directions that went through a dipole
C3_Witness ==
    /\ pc = "done" /\ directions = "both" /\ N >= 4
    /\ \E k \in 2..(N - 1) : self_nodes[k].vin = "zero" /\ self_nodes[k].vout = "zero"

\* C4 as claimed: t[0] = 0, t does not decrease, and t[N-1] = 1 whenever
\* the list has at least two nodes, also when all share one position.
C4_LastIsOne ==
    pc = "done" =>
        /\ IsZero(self_nodes[1].t)
        /\ \A k \in 2..N : Leq(self_nodes[k - 1].t, self_nodes[k].t)
        /\ N >= 2 => IsOne(self_nodes[N].t)

\* C4 amended: t[0] = 0, t does not decrease, t[N-1] = 1 whenever the list
\* has at least two nodes that do not all share one position; when all
\* nodes share one position every t is 0.
C4_Normalized ==
    pc = "done" =>
        /\ IsZero(self_nodes[1].t)
        /\ \A k \in 2..N : Leq(self_nodes[k - 1].t, self_nodes[k].t)
        /\ (\E k \in 2..N : self_nodes[k].d > 0) => IsOne(self_nodes[N].t)
        /\ (\A k \in 2..N : self_nodes[k].d = 0) =>
               \A k \in 1..N : IsZero(self_nodes[k].t)

\* a list with a node strictly between t = 0 and t = 1 and with two nodes
\* at one position
C4_Witness ==
    /\ pc = "done" /\ N >= 4 /\ IsOne(self_nodes[N].t)
    /\ \E k \in 2..N : self_nodes[k].d = 0
    /\ \E k \in 2..(N - 1) :
          ~IsZero(self_nodes[k].t) /\ ~IsOne(self_nodes[k].t)

\* the field of one element alone, as its evaluator defines it
OwnField(el) == <<el.a, el.b>>

RECURSIVE SumOfEvaluated(_)
SumOfEvaluated(els) ==
    IF els = <<>> THEN <<0, 0>>
    ELSE VAdd(SumOfEvaluated(Front(els)),
              IF Last(els).raises \/ Last(els).kind = "potential" THEN <<0, 0>>
              ELSE OwnField(Last(els)))

\* C5: Field.F returns the sum of the contributions of exactly the elements
\* whose evaluation did not raise.
C5_SumOfEvaluated == pc = "F_returned" => Fres = SumOfEvaluated(elements)

\* C6: superposition, Field([A, B]).F(p) = Field([A]).F(p) + Field([B]).F(p).
C6_Superposition ==
    pc = "F_returned" /\ Len(elements) = 2 =>
        Fres = VAdd(F(<<elements[1]>>, xy), F(<<elements[2]>>, xy))

\* C7: after a one-sided integration with a stop function, started at a
\* seed where the function is not positive, the function is not positive at
\* any node but the last, and a clip that kept two nodes put the last node
\* on the zero of the function.
C7_StopImmediately ==
    pc = "ret" /\ HasStop(part.sign) /\ part.nodes[1].g # "out" =>
        /\ \A k \in 1..(Len(part.nodes) - 1) : part.nodes[k].g # "out"
        /\ part.brk = "stop" /\ Len(part.nodes) >= 2 => Last(part.nodes).g = "edge"

\* scenario 5: forward, stop_funcs = [g, None], no poles, the other
\* arguments at their defaults (maxn as large as the model has it)
Scenario5 ==
    /\ directions = "forward" /\ stop_funcs = <<TRUE, FALSE>>
    /\ poles = {} /\ pass_dipoles = 0 /\ d_start = -1
    /\ hmax = HMaxDefault /\ maxr = MaxRDefault /\ maxn = MaxN

\* C8 as claimed: the line of scenario 5 ends through the stop function
\* clip, with its last node on the boundary of the stop region.
C8_Scenario5Clipped ==
    Scenario5 /\ pc = "done" => part.brk = "stop" /\ self_nodes[N].g = "edge"

\* C8 amended: the forward line of scenario 5 never ends through the clip,
\* for the part of sign +1 reads stop_funcs[1]; a clip happens only in a
\* part whose own entry (0 for sign -1, 1 for sign +1) is a function, and
\* when it keeps two nodes the last one is on the boundary.
C8_ClipBySign ==
    /\ Scenario5 => part.brk # "stop"
    /\ part.brk = "stop" =>
          /\ stop_funcs[IF part.sign = -1 THEN 1 ELSE 2]
          /\ pc = "ret" /\ Len(part.nodes) >= 2 => Last(part.nodes).g = "edge"

\* the backward line of the same field and stop functions is clipped
C8_Witness ==
    /\ pc = "done" /\ directions = "backward" /\ stop_funcs = <<TRUE, FALSE>>
    /\ poles = {} /\ part.brk = "stop" /\ N >= 2 /\ self_nodes[1].g = "edge"

\* C9: a line constructed with pass_dipoles = k >= 0 traverses at most k
\* dipoles.
C9_PassBudget == pass_dipoles >= 0 => passed <= pass_dipoles

\* C10: the construction of one line runs at most maxn loop iterations.
C10_StepBudget == iters <= maxn

\* a is the negation of the tangent b (None and the zero vector stay)
IsNegOf(a, b) ==
    \/ b = "vec" /\ a = "-vec"
    \/ b = "-vec" /\ a = "vec"
    \/ b \in {"None", "zero"} /\ a = b

\* node a is node b with its tangents swapped and negated
IsReversedNode(a, b) == IsNegOf(a.vin, b.vout) /\ IsNegOf(a.vout, b.vin) /\ a.g = b.g

\* node a is node b up to t and the corner tag of the finalization
SameNode(a, b) == a.vin = b.vin /\ a.vout = b.vout /\ a.g = b.g /\ a.d = b.d

\* C11: for 'both', when the backward part returns, the forward part is
\* started if and only if _is_loop said no, and a loop leaves the reversed
\* backward list as the final list; when the forward part returns, the
\* final list is the reversed backward list followed by the forward list
\* without its first node, and the junction node takes its v_out from the
\* first node of the forward part.
C11_BothComposition ==
    [][pc = "ret" /\ directions = "both" /\ exc' = "none" =>
         IF part.sign = -1
         THEN /\ is_loop' \in {"loop", "open"}
              /\ is_loop' = "open" <=> (pc' = "loop" /\ part'.sign = 1 /\ part'.i = 0)
              /\ is_loop' = "loop" <=> pc' = "done"
              /\ Len(self_nodes') = Len(part.nodes)
              /\ \A k \in 1..Len(part.nodes) :
                    IsReversedNode(self_nodes'[k], part.nodes[Len(part.nodes) + 1 - k])
         ELSE LET n1 == Len(self_nodes)
                  n2 == Len(part.nodes)
              IN  /\ pc' = "done" /\ is_loop = "open"
                  /\ Len(self_nodes') = n1 + n2 - 1
                  /\ \A k \in 1..(n1 - 1) : SameNode(self_nodes'[k], self_nodes[k])
                  /\ self_nodes'[n1].vin = self_nodes[n1].vin
                  /\ self_nodes'[n1].vout = part.nodes[1].vout
                  /\ \A k \in 2..n2 : SameNode(self_nodes'[n1 + k - 1], part.nodes[k])
    ]_vars

\* a line of both parts, each with more than its seed node
C11_Witness ==
    /\ pc = "done" /\ directions = "both" /\ is_loop = "open" /\ part.sign = 1
    /\ Len(part.nodes) >= 3 /\ N >= Len(part.nodes) + 2

\* C12: for 'backward' the final list is the sign = -1 list in reverse
\* order, each node with v_in the negation of its old v_out and v_out the
\* negation of its old v_in (None staying None), the seed is the last node,
\* and reversing twice gives back the list of the integration.
C12_BackwardReversed ==
    pc = "done" /\ directions = "backward" =>
        /\ N = Len(part.nodes)
        /\ \A k \in 1..N : IsReversedNode(self_nodes[k], part.nodes[N + 1 - k])
        /\ part.nodes[1].vin = "None" /\ self_nodes[N].vout = "None"
        /\ ReverseNodes(ReverseNodes(part.nodes)) = part.nodes

\* a backward line of at least three nodes
C12_Witness ==
    /\ pc = "done" /\ directions = "backward" /\ N >= 3
    /\ self_nodes[2].vin = "-vec" /\ self_nodes[2].vout = "-vec"

PolylinesCalled == \E k \in 1..Len(calls) : calls[k].f = "get_polylines"

\* the point of the line at T is inside the bounds or on their boundary
InsideAt(T) ==
    LET U == IF T = TOne(self_nodes) THEN T ELSE T % TOne(self_nodes)
    IN  IF U % 4 = 0 THEN geom.inside[(U \div 4) + 1]
        ELSE IF U % 2 = 0 THEN TRUE
        ELSE geom.mid[(U \div 4) + 1]

\* C13: every vertex of every polyline returned by get_polylines is inside
\* the bounds or on the boundary, the vertices sampled between two
\* consecutive nodes included.
C13_VerticesInside ==
    pc = "view" /\ PolylinesCalled =>
        \A j \in 1..Len(polyline) :
            \A v \in 1..Len(polyline[j].path) : InsideAt(polyline[j].path[v])

\* the first nodes of the maximal runs of consecutive inside nodes
RunStarts == {k \in 1..N : geom.inside[k] /\ (k = 1 \/ ~geom.inside[k - 1])}
\* the first and the last run are merged for a closed line
RunsMerged ==
    Cardinality(RunStarts) > 1 /\ geom.inside[1] /\ geom.inside[N] /\ geom.gap = "shut"

\* what C14 says of the polylines returned
OnePerRun ==
    /\ exc = "none"
    /\ Len(polyline) = Cardinality(RunStarts) - (IF RunsMerged THEN 1 ELSE 0)
    /\ \A j \in 1..Len(polyline) :
          /\ polyline[j].t0 < polyline[j].t1
          /\ j > 1 => polyline[j - 1].t1 < polyline[j].t0
          /\ polyline[j].start <=> polyline[j].path[1] = 0
          /\ polyline[j].end <=> Last(polyline[j].path) = TOne(self_nodes)

\* C14 as claimed: get_polylines returns one polyline per maximal run of
\* consecutive inside nodes (the first and the last run as one when they
\* are merged), in increasing order of t; every interval had its t0 and its
\* t1 when it was refined (no KeyError); start is true exactly for a path
\* that begins at t = 0 and end exactly for a path that ends at t = 1.
C14_OnePerRun == pc = "view" /\ PolylinesCalled => OnePerRun

\* C14 amended: the same for a line of at least two nodes; a line of one
\* node gives no polyline, inside the bounds or not.
C14_OnePerRunOfLine ==
    pc = "view" /\ PolylinesCalled =>
        IF N >= 2 THEN OnePerRun ELSE polyline = <<>> /\ exc = "none"

\* a closed line cut by the bounds: two runs merged into one polyline that
\* starts at a negative t, and another polyline
C14_Witness ==
    /\ pc = "view" /\ PolylinesCalled /\ RunsMerged
    /\ Len(polyline) >= 1 /\ polyline[1].t0 < 0 /\ Len(polyline[1].path) >= 4

\* C15: the polylines of a line that closed into a loop have start = False
\* and end = False, whatever the bounds.
C15_LoopFlags ==
    pc = "view" /\ PolylinesCalled /\ geom.gap # "far" /\ N >= 3 =>
        \A j \in 1..Len(polyline) : ~polyline[j].start /\ ~polyline[j].end

C19_PlaneSingularity ==
    pc = "plane" /\ plane.called /\ PlaneDen(plane.a, plane.b) # 0
        /\ PlaneSingular(plane.xy, plane.a, plane.b) =>
            /\ plane.res.raises = "none"
            /\ plane.res.Fr = "r"
            /\ plane.Fxy = "added"

\* the new-style element of a tuple read in the parameter order of its kind
KindOfKey(t) ==
    CASE t = "homogeneous" -> "homogeneous"
      [] t = "monopoles" -> "monopole"
      [] t = "dipoles" -> "dipole"
      [] t = "quadrupoles" -> "quadrupole"
      [] t = "wires" -> "wire"
      [] t = "charged_wires" -> "charged_wire"
      [] t = "charged_planes" -> "charged_plane"
      [] t = "charged_lines" -> "charged_line"
      [] t = "charged_discs" -> "charged_disc"
      [] t = "ringcurrents" -> "ringcurrent"
      [] t = "coils" -> "coil"
      [] OTHER -> "custom"
LegacyCalled == pc = "legacy" /\ dct.at = "called" /\ dct.key \in LegacyKeys
TupleInOrder(j) ==
    LET kind == KindOfKey(dct.key)
        l    == dct.it[j]
    IN  /\ dct.elements[j].kind = kind
        /\ IF kind = "custom"
           THEN dct.elements[j].par = [f |-> l] /\ dct.F[j].args = <<l>>
           ELSE /\ DOMAIN dct.elements[j].par
                      = {ParamOrder(kind)[i] : i \in 1..Len(ParamOrder(kind))}
                /\ \A i \in 1..Len(ParamOrder(kind)) :
                      dct.elements[j].par[ParamOrder(kind)[i]] = l[i]
                /\ dct.F[j].args = l
                /\ kind = "quadrupole" =>
                      dct.F[j].val
                          = F_quadrupole(dct.xy, l[1], l[2], l[3], l[4], l[5])

\* C20: every tuple under every legacy key becomes the element whose
\* parameters are the tuple's positions in the parameter order of its kind,
\* a quadrupole tuple being (x, y, Qxx, Qxy, Qyy), and the field of the
\* dictionary evaluates like the field of those elements.
C20_LegacyPositions ==
    LegacyCalled =>
        /\ Len(dct.elements) = Len(dct.it)
        /\ \A j \in 1..Len(dct.it) :
              Len(dct.it[j]) = Len(ParamOrder(KindOfKey(dct.key)))
                  => TupleInOrder(j)

\* C20 as the code has it: a quadrupole tuple is read as (x, y, Qxx, Qyy)
\* with Qxy = 0, every other kind in the parameter order of the kind, a
\* custom entry as the function f; the field evaluates like those elements.
C20_LegacyPositionsDiagonal ==
    LegacyCalled =>
        /\ Len(dct.elements) = Len(dct.it)
        /\ \A j \in 1..Len(dct.it) :
              IF dct.key = "quadrupoles"
              THEN LET l == dct.it[j]
                   IN  /\ dct.elements[j].kind = "quadrupole"
                       /\ dct.elements[j].par
                             = [x |-> l[1], y |-> l[2], Qxx |-> l[3],
                                Qxy |-> 0, Qyy |-> l[4]]
                       /\ dct.F[j].args = <<l[1], l[2], l[3], 0, l[4]>>
                       /\ dct.F[j].val
                             = F_quadrupole(dct.xy, l[1], l[2], l[3], 0, l[4])
              ELSE TupleInOrder(j)

\* a field of two legacy quadrupoles evaluated away from them
C20_Witness ==
    /\ LegacyCalled /\ dct.key = "quadrupoles" /\ Len(dct.it) = 2
    /\ dct.it[1] = <<1, 2, 3, 4>> /\ dct.it[2] = <<5, 4, 3, 2, 1>>
    /\ dct.xy = <<3, -2>> /\ dct.F[1].val # <<0, 0>>

\* C21: every iteration of the integrator begins, and so takes its step,
\* with a step size h between err and hmax.
C21_StepWithinHmax ==
    pc = "loop" /\ LoopCond(part.i, part.l) /\ hmax # -1 =>
        Err <= part.h /\ part.h <= hmax

\* C22: an arrival at a monopole appends exactly one node, placed at the
\* monopole, and ends the part there: the node is the last of the part, has
\* v_out = None, and no step, stop check or step adaptation follows.
C22_MonopoleArrival ==
    /\ [](\A k \in 1..Len(part.nodes) :
             part.nodes[k].at = "monopole" =>
                 k = Len(part.nodes) /\ k > 1 /\ part.nodes[k].vout = "None")
    /\ [][pc = "loop" /\ part'.nodes # part.nodes
              /\ Last(part'.nodes).at = "monopole" =>
            /\ Len(part'.nodes) = Len(part.nodes) + 1
            /\ Front(part'.nodes) = SetLast(part.nodes, "vout", "vec")
            /\ pc' = "ret"
            /\ part'.h = part.h /\ part'.h_old = part.h_old
            /\ part'.brk = "monopole"]_vars

\* a part of three nodes that ended at a monopole
C22_Witness ==
    /\ pc = "ret" /\ part.brk = "monopole" /\ Len(part.nodes) = 3
    /\ Last(part.nodes).at = "monopole" /\ Last(part.nodes).vout = "None"

\* h > 0.99 * dpole and (cv > 0.9 or (cv > 0. and dpole * fabs(sv) < ytol))
SlowCondition ==
    /\ fcall.in.reach # "short"
    /\ fcall.in.cv \in {"ahead", "dead"}
          \/ (fcall.in.cv = "side" /\ fcall.in.lateral)

\* C23: whenever the nearest singular point (the start point, a monopole or
\* a dipole) has h > 0.99 dpole and (cv > 0.9 or (cv > 0 and
\* dpole |sv| < ytol)), h becomes max(4 err, dpole cv max(0.9,
\* 1 - 0.1 dpole cv)) before the next Runge-Kutta step.
C23_SlowDown ==
    pc = "approach" /\ fcall.done /\ SlowCondition =>
        fcall.out.h = Max(4 * Err, fcall.in.x) /\ fcall.out.rk

\* C23 as the code has it: the step size is set so only in front of the
\* start point, when the test for a special point ((dpole < 0.1 or
\* h >= dpole) and (cv > 0.9 or dpole < ytol)) holds and the path does not
\* close there; in every other case the special cases leave h as it is.
C23_SlowDownAtStart ==
    pc = "approach" /\ fcall.done =>
        IF /\ SlowCondition /\ fcall.in.type = "start"
           /\ fcall.in.dpole # "far" \/ fcall.in.reach = "over"
           /\ fcall.in.cv \in {"ahead", "dead"} \/ fcall.in.dpole = "tiny"
           /\ ~(fcall.in.lateral /\ fcall.in.axial /\ fcall.in.long)
        THEN fcall.out.h = Max(4 * Err, fcall.in.x) /\ fcall.out.rk
        ELSE fcall.out.h = fcall.in.h

\* the start point is straight ahead within reach of the step, and the
\* step size falls to the floor of 4 err
C23_Witness ==
    /\ pc = "approach" /\ fcall.done /\ fcall.in.type = "start"
    /\ fcall.in.reach = "over" /\ fcall.in.cv = "dead" /\ fcall.in.x = 1
    /\ fcall.in.h = HInit /\ fcall.out.h = 4 * Err /\ fcall.out.branch = "slow"

\* the places of the value c in a path
PlacesOf(c, path) == {i \in 1..Len(path) : path[i] = c}

\* the parameter of corner node k as it falls into the interval of
\* polyline j, if it lies strictly inside
CornerInside(k, j) ==
    {c \in {TNode(k), TNode(k) - TOne(self_nodes)} :
        polyline[j].t0 < c /\ c < polyline[j].t1}

\* C24: a corner node whose parameter lies strictly inside an interval that
\* get_polylines emits, a merged interval of negative t0 included, is a
\* vertex of the interval's polyline exactly once.
C24_CornerOnce ==
    pc = "view" /\ PolylinesCalled =>
        \A j \in 1..Len(polyline) :
            \A k \in {i \in 1..N : self_nodes[i].corner = "True"} :
                \A c \in CornerInside(k, j) :
                    Cardinality(PlacesOf(c, polyline[j].path)) = 1

\* a merged interval with a corner node of the last run inside it
C24_Witness ==
    /\ pc = "view" /\ PolylinesCalled /\ Len(polyline) >= 1
    /\ polyline[1].t0 < 0
    /\ \E k \in 2..(N - 1) :
          /\ self_nodes[k].corner = "True"
          /\ CornerInside(k, 1) = {TNode(k) - TOne(self_nodes)}
          /\ \E i \in 2..(Len(polyline[1].path) - 1) :
                polyline[1].path[i] = TNode(k) - TOne(self_nodes)

\* C25: _get_polyline returns from its loop when the success streak is at
\* least 3 and the new interval number N is smaller than the current N_old.
C25_ReturnWhenDecreasing ==
    [][pc = "refine" /\ refine.pc = "loop" /\ refine.num_success = 2
           /\ refine'.num_success >= 2 /\ refine'.N < refine.t_list.n
         => refine'.exit = "three"]_vars

\* C25 as the code has it: the loop is left on a streak of three successes
\* only when N is not smaller than N_old; on such a streak with N < N_old
\* the streak is put back to 2 and the loop goes on with the shorter list
\* (or gives up at the fiftieth pass).
C25_ReturnWhenNotDecreasing ==
    [][pc = "refine" /\ refine.pc = "loop" =>
          /\ refine'.exit = "three" =>
                /\ refine.num_success = 2 /\ refine'.num_success = 3
                /\ refine'.N >= refine.t_list.n
          /\ (refine.num_success = 2 /\ refine'.num_success >= 2
                /\ refine'.N < refine.t_list.n) =>
                /\ refine'.num_success = 2
                /\ refine'.exit \in {"", "giveup", "shrunk"}
          /\ (refine.num_success = 2 /\ refine'.num_success >= 2
                /\ refine'.N >= refine.t_list.n) => refine'.exit = "three"]_vars

\* a third success with fewer intervals than before, and the loop goes on
C25_Witness ==
    /\ pc = "refine" /\ refine.pc = "loop" /\ refine.num = 3
    /\ refine.num_success = 2 /\ refine.t_list.n = 3 /\ refine.N = 3

\* C26: the list returned at the give-up is the best one seen; if a pass
\* succeeded it is a list that was itself measured with success.
C26_BestSeen ==
    pc = "refine" /\ refine.pc = "done" /\ refine.exit = "giveup"
        /\ refine.had_success => refine.best = "success"

\* C27: the loop of _get_polyline runs at most 50 times, every pass counting
\* one up, and the list returned has at least two points, the first at t0
\* and the last at t1.
C27_Terminates ==
    /\ [](pc = "refine" => refine.num <= GiveUp)
    /\ [][pc = "refine" /\ refine.pc = "loop" =>
             /\ refine'.num = refine.num + 1
             /\ refine'.pc = "loop" => refine'.t_list.n >= 2]_vars
    /\ [](pc = "refine" /\ refine.pc = "done" =>
             /\ refine.ret_list.n + 1 >= 2
             /\ refine.ret_list.first = "t0"
             /\ refine.ret_list.last = "t1")

\* the give-up after fifty passes returns the list kept as the best
C27_Witness ==
    /\ pc = "refine" /\ refine.pc = "done" /\ refine.exit = "giveup"
    /\ refine.num = GiveUp /\ refine.ret_list = Rearranged(3)

\* C28: the refinement of the support points of a start path ends for every
\* path and field: a pair of neighbours is bisected only while its gap is
\* at least the limit, so every step of the loop lowers a measure of the
\* work left and no gap falls below half the limit; the list stays strictly
\* increasing; and when the loop is left every pair of neighbours has a gap
\* below the limit or neither a large change of the field nor a large
\* distance.
RECURSIVE WorkLeft(_, _)
WorkLeft(l, j) ==
    IF j >= Len(l) THEN 0 ELSE 2 * (l[j + 1] - l[j]) - 1 + WorkLeft(l, j + 1)
InSpline == pc = "spline" /\ fcall.f = "make_spline"
C28_RefinementEnds ==
    /\ [][InSpline /\ fcall.pc = "refine" /\ fcall'.pc = "refine" =>
             /\ WorkLeft(fcall'.tlist, fcall'.i) < WorkLeft(fcall.tlist, fcall.i)
             /\ Len(fcall'.tlist) > Len(fcall.tlist) =>
                    fcall.tlist[fcall.i + 1] - fcall.tlist[fcall.i] >= TdifLimit]_vars
    /\ [](InSpline =>
             /\ \A j \in 1 .. Len(fcall.tlist) - 1 :
                    /\ fcall.tlist[j] < fcall.tlist[j + 1]
                    /\ 2 * (fcall.tlist[j + 1] - fcall.tlist[j]) >= TdifLimit
             /\ Len(fcall.Flist) = Len(fcall.tlist)
             /\ fcall.tlist[1] = 0 /\ fcall.tlist[Len(fcall.tlist)] = T1)
    /\ [](InSpline /\ fcall.pc = "done" =>
             \A j \in 1 .. Len(fcall.tlist) - 1 :
                 LET a == fcall.tlist[j]
                     b == fcall.tlist[j + 1]
                 IN \/ b - a < TdifLimit
                    \/ /\ Abs(fcall.Flist[j + 1] - fcall.Flist[j]) * FdifDen
                              <= fcall.Fmax
                       /\ PathDist(fcall, a, b) * DistDen <= fcall.pathlen)
C28_Witness ==
    /\ InSpline /\ fcall.pc = "done"
    /\ \E j \in 1 .. Len(fcall.tlist) - 1 :
           fcall.tlist[j + 1] - fcall.tlist[j] < TdifLimit
    /\ \E j \in 1 .. Len(fcall.tlist) - 1 :
           fcall.tlist[j + 1] - fcall.tlist[j] = Gap0

\* C29: angle_dif(a, b) lies in the half-open range (-pi, pi], and is +pi
\* when b - a is an odd multiple of pi.
AngleDone == pc = "helper" /\ fcall.f = "angle_dif" /\ fcall.done
OddMultiple ==
    /\ (fcall.in[2][1] - fcall.in[1][1]) % TwoPi = Pi
    /\ fcall.in[1][2] = 0 /\ fcall.in[2][2] = 0
C29_HalfOpenAtPi ==
    AngleDone =>
        /\ fcall.out[1] > -Pi \/ (fcall.out[1] = -Pi /\ fcall.out[2] > 0)
        /\ fcall.out[1] < Pi \/ (fcall.out[1] = Pi /\ fcall.out[2] <= 0)
        /\ OddMultiple => fcall.out = <<Pi, 0>>
\* C29 as the code has it: angle_dif(a, b) lies in the closed range
\* [-pi, pi] and differs from b - a by a multiple of 2 pi; it is -pi when
\* b - a is an odd multiple of pi, and +pi only when b - a + pi is negative
\* and small enough to be lost in 2 pi.
C29_ClosedRange ==
    AngleDone =>
        /\ fcall.out[1] > -Pi \/ (fcall.out[1] = -Pi /\ fcall.out[2] >= 0)
        /\ fcall.out[1] < Pi \/ (fcall.out[1] = Pi /\ fcall.out[2] <= 0)
        /\ (fcall.out[1] - (fcall.in[2][1] - fcall.in[1][1])) % TwoPi = 0
        /\ OddMultiple => fcall.out = <<-Pi, 0>>
        /\ fcall.out[1] = Pi =>
               /\ fcall.in[2][1] - fcall.in[1][1] = -Pi
               /\ fcall.in[2][2] - fcall.in[1][2] < 0
C29_Witness ==
    AngleDone /\ OddMultiple /\ fcall.in[2][1] - fcall.in[1][1] = 3 * Pi
        /\ fcall.out = <<-Pi, 0>>
C29_WitnessPi == AngleDone /\ fcall.out = <<Pi, 0>>

\* C30: cel ends for every input: with kc = 0 it returns NaN without a round
\* of its loop, otherwise it returns after at most 11 rounds; and the
\* evaluators of the charged disc, the ring current and the coil never call
\* it with kc = 0.
InCel == pc = "helper" /\ fcall.f = "cel"
C30_CelEnds ==
    /\ [](InCel => fcall.rounds <= CelMaxI + 1)
    /\ [](InCel /\ fcall.pc = "done" =>
             IF fcall.rounds = 0 THEN fcall.kc = "zero" /\ fcall.out = "nan"
             ELSE fcall.kc # "zero")
    /\ [](InCel /\ fcall.by # "direct" => fcall.kc # "zero")
    /\ [][InCel /\ fcall.pc = "enter" =>
             fcall'.pc = IF fcall.kc = "zero" THEN "done" ELSE "loop"]_vars
    /\ [][InCel /\ fcall.pc = "loop" =>
             /\ fcall'.rounds = fcall.rounds + 1
             /\ fcall'.pc = "loop" => fcall'.i = fcall.i + 1 /\ fcall.i < CelMaxI]_vars
C30_Witness ==
    InCel /\ fcall.pc = "done" /\ fcall.rounds = CelMaxI + 1
        /\ fcall.by = "F_coil" /\ fcall.kc = "floor"

====
